---- MODULE Spec2Model ----
(***************************************************************************)
(* LocalTranscribe: diarization/transcription fusion and quality gating.   *)
(*                                                                         *)
(* Times are integers counting tenths of a second (0.3 s = 3).  Ratios and *)
(* scores are exact rationals [n, d] in lowest terms with d > 0.           *)
(***************************************************************************)
EXTENDS Integers, Sequences, FiniteSets, TLC

\* ------------------------------------------------------------------------
\* Bounds of the model
\* ------------------------------------------------------------------------
MaxSegs == 3

Speakers == {"SPEAKER_00", "SPEAKER_01"}

\* durations and gaps (tenths of a second) the diarization inputs are built of
SegDurs == {2, 5, 25}
SegGaps == {0, 12}

\* ------------------------------------------------------------------------
\* Exact rational arithmetic
\* ------------------------------------------------------------------------
Abs(x) == IF x < 0 THEN -x ELSE x

RECURSIVE GCD(_, _)
GCD(a, b) == IF b = 0 THEN a ELSE GCD(b, a % b)

Rat(num, den) ==
    LET g == GCD(Abs(num), Abs(den))
        s == IF den < 0 THEN -1 ELSE 1
    IN  [n |-> s * (num \div g), d |-> s * (den \div g)]

RInt(i) == [n |-> i, d |-> 1]
RAdd(a, b) == Rat(a.n * b.d + b.n * a.d, a.d * b.d)
RSub(a, b) == Rat(a.n * b.d - b.n * a.d, a.d * b.d)
RMul(a, b) == Rat(a.n * b.n, a.d * b.d)
RDiv(a, b) == Rat(a.n * b.d, a.d * b.n)
RLt(a, b) == a.n * b.d < b.n * a.d
RLe(a, b) == a.n * b.d <= b.n * a.d
RMin(a, b) == IF RLt(b, a) THEN b ELSE a
RMax(a, b) == IF RLt(a, b) THEN b ELSE a
RAbs(a) == [n |-> Abs(a.n), d |-> a.d]

RECURSIVE SumSeq(_)
SumSeq(s) == IF s = <<>> THEN 0 ELSE s[1] + SumSeq(Tail(s))

\* ------------------------------------------------------------------------
\* Diarization segments (RawSegment dicts) and the inputs drawn for them
\* ------------------------------------------------------------------------
RawSegment(sp, st, en) ==
    [speaker |-> sp, start |-> st, end |-> en, duration |-> en - st]

\* every way to add one well-formed segment after the last one of s
ExtendSegs(s) ==
    LET from == IF s = <<>> THEN 0 ELSE s[Len(s)].end
    IN  { Append(s, RawSegment(sp, from + g, from + g + d)) :
            sp \in Speakers, g \in SegGaps, d \in SegDurs }

RECURSIVE SegSeqsOfLen(_)
SegSeqsOfLen(k) ==
    IF k = 0 THEN { <<>> }
    ELSE UNION { ExtendSegs(s) : s \in SegSeqsOfLen(k - 1) }

SegSeqs(max) == UNION { SegSeqsOfLen(k) : k \in 0..max }

\* ------------------------------------------------------------------------
\* SegmentProcessingConfig
\* ------------------------------------------------------------------------
DefaultMinSegmentDuration == 3
DefaultMergeGapThreshold == 10
DefaultSmoothingWindow == 20

DefaultConfig ==
    [min_segment_duration |-> DefaultMinSegmentDuration,
     merge_gap_threshold  |-> DefaultMergeGapThreshold,
     smoothing_window     |-> DefaultSmoothingWindow,
     enabled              |-> TRUE]

Configs ==
    { DefaultConfig,
      [DefaultConfig EXCEPT !.enabled = FALSE],
      [DefaultConfig EXCEPT !.min_segment_duration = 2,
                            !.merge_gap_threshold = 20,
                            !.smoothing_window = 30] }

\* ------------------------------------------------------------------------
\* SegmentProcessor helpers
\* ------------------------------------------------------------------------
\* variant: a segment as long as the threshold is dropped as well
filter_micro_segments_strict(segments, cfg) ==
    SelectSeq(segments, LAMBDA seg : seg.duration > cfg.min_segment_duration)

filter_micro_segments(segments, cfg) ==
    SelectSeq(segments, LAMBDA seg : seg.duration >= cfg.min_segment_duration)

RECURSIVE merge_scan(_, _, _, _, _)
merge_scan(segments, i, current, merged, cfg) ==
    IF i > Len(segments) THEN Append(merged, current)
    ELSE LET next_seg == segments[i]
             gap == next_seg.start - current.end
         IN  IF next_seg.speaker = current.speaker /\ gap <= cfg.merge_gap_threshold
             THEN merge_scan(segments, i + 1,
                             [current EXCEPT !.end = next_seg.end,
                                             !.duration = next_seg.end - current.start],
                             merged, cfg)
             ELSE merge_scan(segments, i + 1, next_seg, Append(merged, current), cfg)

\* variant: segments of one speaker are folded whatever the gap between them
merge_consecutive_segments_any_gap(segments, cfg) ==
    IF segments = <<>> THEN segments
    ELSE merge_scan(segments, 2, segments[1], <<>>,
                    [cfg EXCEPT !.merge_gap_threshold =
                                   segments[Len(segments)].end + cfg.merge_gap_threshold])

\* variant: the accumulator is flushed inside the loop and once more after it
merge_consecutive_segments_double_flush(segments, cfg) ==
    IF segments = <<>> THEN segments
    ELSE LET merged == merge_scan(segments, 2, segments[1], <<>>, cfg)
         IN  Append(merged, merged[Len(merged)])

merge_consecutive_segments(segments, cfg) ==
    IF segments = <<>> THEN segments
    ELSE merge_scan(segments, 2, segments[1], <<>>, cfg)

\* the reassignment loop: range(1, len - 1), in place, left to right
RECURSIVE smooth_scan(_, _, _)
smooth_scan(smoothed, i, cfg) ==
    IF i > Len(smoothed) - 1 THEN smoothed
    ELSE LET prev == smoothed[i - 1]
             curr == smoothed[i]
             next_seg == smoothed[i + 1]
         IN  IF /\ curr.duration < cfg.smoothing_window
                /\ prev.speaker = next_seg.speaker
                /\ prev.speaker # curr.speaker
             THEN smooth_scan([smoothed EXCEPT ![i].speaker = prev.speaker], i + 1, cfg)
             ELSE smooth_scan(smoothed, i + 1, cfg)

\* the merge that follows the reassignments: same speaker only, no gap test
RECURSIVE remerge_scan(_, _, _, _)
remerge_scan(smoothed, i, current, merged) ==
    IF i > Len(smoothed) THEN Append(merged, current)
    ELSE LET next_seg == smoothed[i]
         IN  IF next_seg.speaker = current.speaker
             THEN remerge_scan(smoothed, i + 1,
                               [current EXCEPT !.end = next_seg.end,
                                               !.duration = next_seg.end - current.start],
                               merged)
             ELSE remerge_scan(smoothed, i + 1, next_seg, Append(merged, current))

\* variant: every segment is judged against its neighbours as the merge step
\* left them, whatever the scan has reassigned before it
reassign_speakers_from_merge_output(segments, cfg) ==
    [i \in 1..Len(segments) |->
        IF /\ 1 < i /\ i < Len(segments)
           /\ segments[i].duration < cfg.smoothing_window
           /\ segments[i - 1].speaker = segments[i + 1].speaker
           /\ segments[i - 1].speaker # segments[i].speaker
        THEN [segments[i] EXCEPT !.speaker = segments[i - 1].speaker]
        ELSE segments[i]]

\* variant: the merge after the reassignments keeps merge_gap_threshold
smooth_speaker_transitions_gap_tested(segments, cfg) ==
    IF Len(segments) < 3 THEN segments
    ELSE merge_consecutive_segments(smooth_scan(segments, 2, cfg), cfg)

\* variant: the reassigned list is returned as it is, without the merge that
\* follows the reassignments
smooth_speaker_transitions_without_remerge(segments, cfg) ==
    IF Len(segments) < 3 THEN segments ELSE smooth_scan(segments, 2, cfg)

\* the list `smoothed` once the reassignment loop has run, before the re-merge
reassign_speakers(segments, cfg) ==
    IF Len(segments) < 3 THEN segments ELSE smooth_scan(segments, 2, cfg)

smooth_speaker_transitions(segments, cfg) ==
    IF Len(segments) < 3 THEN segments
    ELSE LET smoothed == reassign_speakers(segments, cfg)
         IN  remerge_scan(smoothed, 2, smoothed[1], <<>>)

\* number of reassignments the smoothing loop makes (stats.smoothed_segment_count)
smoothed_count(segments, cfg) ==
    IF Len(segments) < 3 THEN 0
    ELSE LET smoothed == smooth_scan(segments, 2, cfg)
         IN  Cardinality({ i \in 1..Len(segments) :
                             smoothed[i].speaker # segments[i].speaker })

count_speaker_switches(segments) ==
    IF Len(segments) < 2 THEN 0
    ELSE Cardinality({ i \in 2..Len(segments) :
                         segments[i].speaker # segments[i - 1].speaker })

calculate_avg_duration(segments) ==
    IF segments = <<>> THEN RInt(0)
    ELSE Rat(SumSeq([i \in 1..Len(segments) |-> segments[i].duration]), Len(segments))

calculate_speaker_durations(segments) ==
    [sp \in { segments[i].speaker : i \in 1..Len(segments) } |->
        SumSeq([i \in 1..Len(segments) |->
                  IF segments[i].speaker = sp THEN segments[i].duration ELSE 0])]

\* ------------------------------------------------------------------------
\* The same three steps on dict objects.  A heap is the sequence of the
\* dicts allocated so far, a reference is an index into it, a list is a
\* sequence of references.  The dicts of the input list are 1..Len(input).
\* ------------------------------------------------------------------------
\* variant: `current = segments[0]`, the accumulator is the dict of the list
dict_copy_aliasing(heap, ref) == [heap |-> heap, ref |-> ref]

\* dict.copy(): a new dict with the same items
dict_copy(heap, ref) == [heap |-> Append(heap, heap[ref]), ref |-> Len(heap) + 1]

\* filtered.append(seg): the list holds the dicts of the input, not copies
filter_micro_segments_by_ref(heap, refs, cfg) ==
    SelectSeq(refs, LAMBDA r : heap[r].duration >= cfg.min_segment_duration)

RECURSIVE merge_scan_by_ref(_, _, _, _, _, _)
merge_scan_by_ref(heap, refs, i, current, merged, cfg) ==
    IF i > Len(refs) THEN [heap |-> heap, list |-> Append(merged, current)]
    ELSE LET next_seg == heap[refs[i]]
             gap == next_seg.start - heap[current].end
         IN  IF next_seg.speaker = heap[current].speaker /\ gap <= cfg.merge_gap_threshold
             THEN merge_scan_by_ref(
                      [heap EXCEPT ![current].end = next_seg.end,
                                   ![current].duration = next_seg.end - heap[current].start],
                      refs, i + 1, current, merged, cfg)
             ELSE LET copy == dict_copy(heap, refs[i])
                  IN  merge_scan_by_ref(copy.heap, refs, i + 1, copy.ref,
                                        Append(merged, current), cfg)

merge_consecutive_segments_by_ref(heap, refs, cfg) ==
    IF refs = <<>> THEN [heap |-> heap, list |-> refs]
    ELSE LET copy == dict_copy(heap, refs[1])
         IN  merge_scan_by_ref(copy.heap, refs, 2, copy.ref, <<>>, cfg)

\* curr['speaker'] = prev['speaker'] on the dicts of the list it was given
RECURSIVE smooth_scan_by_ref(_, _, _, _)
smooth_scan_by_ref(heap, refs, i, cfg) ==
    IF i > Len(refs) - 1 THEN heap
    ELSE LET prev == heap[refs[i - 1]]
             curr == heap[refs[i]]
             next_seg == heap[refs[i + 1]]
         IN  IF /\ curr.duration < cfg.smoothing_window
                /\ prev.speaker = next_seg.speaker
                /\ prev.speaker # curr.speaker
             THEN smooth_scan_by_ref([heap EXCEPT ![refs[i]].speaker = prev.speaker],
                                     refs, i + 1, cfg)
             ELSE smooth_scan_by_ref(heap, refs, i + 1, cfg)

RECURSIVE remerge_scan_by_ref(_, _, _, _, _)
remerge_scan_by_ref(heap, refs, i, current, merged) ==
    IF i > Len(refs) THEN [heap |-> heap, list |-> Append(merged, current)]
    ELSE LET next_seg == heap[refs[i]]
         IN  IF next_seg.speaker = heap[current].speaker
             THEN remerge_scan_by_ref(
                      [heap EXCEPT ![current].end = next_seg.end,
                                   ![current].duration = next_seg.end - heap[current].start],
                      refs, i + 1, current, merged)
             ELSE LET copy == dict_copy(heap, refs[i])
                  IN  remerge_scan_by_ref(copy.heap, refs, i + 1, copy.ref,
                                          Append(merged, current))

smooth_speaker_transitions_by_ref(heap, refs, cfg) ==
    IF Len(refs) < 3 THEN [heap |-> heap, list |-> refs]
    ELSE LET reassigned == smooth_scan_by_ref(heap, refs, 2, cfg)
             copy == dict_copy(reassigned, refs[1])
         IN  remerge_scan_by_ref(copy.heap, refs, 2, copy.ref, <<>>)

\* filter, merge, smooth on the dicts of `segments`; the heap and the list of
\* references that process assigns to diarization_result.segments
process_by_ref(segments, cfg) ==
    LET refs == [i \in 1..Len(segments) |-> i]
        filtered == filter_micro_segments_by_ref(segments, refs, cfg)
        merged == merge_consecutive_segments_by_ref(segments, filtered, cfg)
    IN  smooth_speaker_transitions_by_ref(merged.heap, merged.list, cfg)

\* ------------------------------------------------------------------------
\* SegmentProcessor.process
\* ------------------------------------------------------------------------
ZeroStats ==
    [original_segment_count |-> 0, filtered_segment_count |-> 0,
     merged_segment_count |-> 0, smoothed_segment_count |-> 0,
     final_segment_count |-> 0, micro_segments_removed |-> 0,
     speaker_switches_before |-> 0, speaker_switches_after |-> 0,
     avg_segment_duration_before |-> RInt(0),
     avg_segment_duration_after |-> RInt(0)]

\* the three steps, each consuming the output of the one before
process_steps(segments, cfg) ==
    LET filtered == filter_micro_segments(segments, cfg)
        merged == merge_consecutive_segments(filtered, cfg)
        smoothed == smooth_speaker_transitions(merged, cfg)
    IN  [input |-> segments, filtered |-> filtered,
         merged |-> merged, reassigned |-> reassign_speakers(merged, cfg),
         smoothed |-> smoothed]

\* variant: the two switch counters are assigned the wrong way round
process_stats_swapped(segments, cfg) ==
    LET st == process_steps(segments, cfg)
    IN  [original_segment_count |-> Len(segments),
         filtered_segment_count |-> Len(st.filtered),
         merged_segment_count |-> Len(st.filtered) - Len(st.merged),
         smoothed_segment_count |-> smoothed_count(st.merged, cfg),
         final_segment_count |-> Len(st.smoothed),
         micro_segments_removed |-> Len(segments) - Len(st.filtered),
         speaker_switches_before |-> count_speaker_switches(st.smoothed),
         speaker_switches_after |-> count_speaker_switches(segments),
         avg_segment_duration_before |-> calculate_avg_duration(segments),
         avg_segment_duration_after |-> calculate_avg_duration(st.smoothed)]

process_stats(segments, cfg) ==
    LET st == process_steps(segments, cfg)
    IN  [original_segment_count |-> Len(segments),
         filtered_segment_count |-> Len(st.filtered),
         merged_segment_count |-> Len(st.filtered) - Len(st.merged),
         smoothed_segment_count |-> smoothed_count(st.merged, cfg),
         final_segment_count |-> Len(st.smoothed),
         micro_segments_removed |-> Len(segments) - Len(st.filtered),
         speaker_switches_before |-> count_speaker_switches(segments),
         speaker_switches_after |-> count_speaker_switches(st.smoothed),
         avg_segment_duration_before |-> calculate_avg_duration(segments),
         avg_segment_duration_after |-> calculate_avg_duration(st.smoothed)]

\* metadata['segment_processing'] as process writes it
stats_metadata(stats, cfg) ==
    [stats |->
        [original_segment_count |-> stats.original_segment_count,
         final_segment_count |-> stats.final_segment_count,
         micro_segments_removed |-> stats.micro_segments_removed,
         merged_segment_count |-> stats.merged_segment_count,
         smoothed_segment_count |-> stats.smoothed_segment_count,
         speaker_switches_before |-> stats.speaker_switches_before,
         speaker_switches_after |-> stats.speaker_switches_after,
         switch_reduction_pct |->
            IF stats.speaker_switches_before > 0
            THEN Rat(100 * (stats.speaker_switches_before - stats.speaker_switches_after),
                     stats.speaker_switches_before)
            ELSE RInt(0),
         avg_segment_duration_before |-> stats.avg_segment_duration_before,
         avg_segment_duration_after |-> stats.avg_segment_duration_after,
         duration_improvement_pct |->
            IF RLt(RInt(0), stats.avg_segment_duration_before)
            THEN RDiv(RMul(RInt(100), RSub(stats.avg_segment_duration_after,
                                           stats.avg_segment_duration_before)),
                      stats.avg_segment_duration_before)
            ELSE RInt(0)],
     config |->
        [min_segment_duration |-> cfg.min_segment_duration,
         merge_gap_threshold |-> cfg.merge_gap_threshold,
         smoothing_window |-> cfg.smoothing_window]]

\* the closing log lines divide by original_segment_count and by
\* speaker_switches_before without a guard: ZeroDivisionError when either is 0
summary_log_raises(stats) ==
    stats.original_segment_count = 0 \/ stats.speaker_switches_before = 0

\* variant: the success flag of the diarization is not looked at
skips_processing_ignoring_success(res, cfg) ==
    ~cfg.enabled \/ res.segments = <<>>

skips_processing(res, cfg) ==
    ~cfg.enabled \/ ~res.success \/ res.segments = <<>>

\* One call of process on the host object res: host is the object after the
\* call, status tells whether the call returned (the host object) or raised.
\* what the dicts of the input list hold once process is through with them
input_records(res, cfg) ==
    IF skips_processing(res, cfg) THEN res.segments
    ELSE SubSeq(process_by_ref(res.segments, cfg).heap, 1, Len(res.segments))

process(res, cfg) ==
    IF skips_processing(res, cfg)
    THEN [host |-> res, status |-> "returned", stats |-> ZeroStats,
          steps |-> process_steps(<<>>, cfg)]
    ELSE LET steps == process_steps(res.segments, cfg)
             stats == process_stats(res.segments, cfg)
             updated == [res EXCEPT
                           !.segments = steps.smoothed,
                           !.speaker_durations = calculate_speaker_durations(steps.smoothed),
                           !.metadata = [k \in DOMAIN res.metadata \cup {"segment_processing"} |->
                                           IF k = "segment_processing"
                                           THEN stats_metadata(stats, cfg)
                                           ELSE res.metadata[k]]]
         IN  [host |-> updated,
              status |-> IF summary_log_raises(stats) THEN "raised" ELSE "returned",
              stats |-> stats, steps |-> steps]

\* ------------------------------------------------------------------------
\* Speaker regions (create_speaker_regions)
\* ------------------------------------------------------------------------
RegionMaxGap == 10

SpeakerRegion(sp, st, en, dur, conf, count) ==
    [speaker |-> sp, start |-> st, end |-> en, duration |-> dur,
     confidence |-> conf, segment_count |-> count]

\* the running current_region dict, opened on one segment
open_region(seg) ==
    [speaker |-> seg.speaker, start |-> seg.start, end |-> seg.end,
     confidence |-> RInt(1), segment_count |-> 1]

\* variant: the duration written without subtracting the start
close_region_end_as_duration(current_region) ==
    SpeakerRegion(current_region.speaker, current_region.start, current_region.end,
                  current_region.end,
                  current_region.confidence, current_region.segment_count)

close_region(current_region) ==
    SpeakerRegion(current_region.speaker, current_region.start, current_region.end,
                  current_region.end - current_region.start,
                  current_region.confidence, current_region.segment_count)

RECURSIVE regions_scan(_, _, _, _, _)
regions_scan(diarization_segments, i, current_region, regions, max_gap) ==
    IF i > Len(diarization_segments) THEN Append(regions, close_region(current_region))
    ELSE LET seg == diarization_segments[i]
             gap == seg.start - current_region.end
         IN  IF seg.speaker = current_region.speaker /\ gap <= max_gap
             THEN regions_scan(diarization_segments, i + 1,
                               [current_region EXCEPT !.end = seg.end,
                                                      !.segment_count = @ + 1],
                               regions, max_gap)
             ELSE regions_scan(diarization_segments, i + 1, open_region(seg),
                               Append(regions, close_region(current_region)), max_gap)

\* variant: the scan extends the running region on the gap alone, whoever speaks
create_speaker_regions_any_speaker(diarization_segments, max_gap) ==
    IF diarization_segments = <<>> THEN <<>>
    ELSE LET relabelled == [i \in 1..Len(diarization_segments) |->
                              [diarization_segments[i] EXCEPT
                                  !.speaker = diarization_segments[1].speaker]]
         IN  regions_scan(relabelled, 2, open_region(relabelled[1]), <<>>, max_gap)

create_speaker_regions(diarization_segments, max_gap) ==
    IF diarization_segments = <<>> THEN <<>>
    ELSE regions_scan(diarization_segments, 2, open_region(diarization_segments[1]),
                      <<>>, max_gap)

\* use_regions = False: one region per segment, no grouping
segments_as_regions(diarization_segments) ==
    [i \in 1..Len(diarization_segments) |->
        SpeakerRegion(diarization_segments[i].speaker, diarization_segments[i].start,
                      diarization_segments[i].end, diarization_segments[i].duration,
                      RInt(1), 1)]

\* ------------------------------------------------------------------------
\* Speaker mapping (map_speakers_to_segments)
\* ------------------------------------------------------------------------
Max2(a, b) == IF a < b THEN b ELSE a
Min2(a, b) == IF b < a THEN b ELSE a

DefaultMapping ==
    [use_regions |-> TRUE,
     temporal_consistency_weight |-> Rat(3, 10),
     duration_weight |-> Rat(4, 10),
     overlap_weight |-> Rat(3, 10)]

overlap_duration(trans_seg, region) ==
    Max2(0, Min2(trans_seg.end, region.end) - Max2(trans_seg.start, region.start))

overlap_score(trans_seg, region) ==
    IF trans_seg.end - trans_seg.start > 0
    THEN Rat(overlap_duration(trans_seg, region), trans_seg.end - trans_seg.start)
    ELSE RInt(0)

duration_score(region) == RMin(RInt(1), Rat(region.duration, 50))

consistency_score(region, previous_speaker) ==
    IF previous_speaker = region.speaker THEN Rat(8, 10) ELSE Rat(2, 10)

\* variant: the length of the region does not enter the score
final_score_without_duration(trans_seg, region, previous_speaker, mapping) ==
    RMul(RAdd(RMul(overlap_score(trans_seg, region), mapping.overlap_weight),
              RMul(consistency_score(region, previous_speaker),
                   mapping.temporal_consistency_weight)),
         region.confidence)

final_score(trans_seg, region, previous_speaker, mapping) ==
    RMul(RAdd(RAdd(RMul(overlap_score(trans_seg, region), mapping.overlap_weight),
                   RMul(duration_score(region), mapping.duration_weight)),
              RMul(consistency_score(region, previous_speaker),
                   mapping.temporal_consistency_weight)),
         region.confidence)

\* before any region is looked at
NoBest == [score |-> RInt(-1), speaker |-> "UNKNOWN", confidence |-> RInt(0)]

\* the scoring loop over the regions, strict > keeps the first of equal scores
RECURSIVE best_scan(_, _, _, _, _, _)
best_scan(regions, i, trans_seg, previous_speaker, best, mapping) ==
    IF i > Len(regions) THEN best
    ELSE IF overlap_duration(trans_seg, regions[i]) = 0
         THEN best_scan(regions, i + 1, trans_seg, previous_speaker, best, mapping)
         ELSE LET score == final_score(trans_seg, regions[i], previous_speaker, mapping)
              IN  IF RLt(best.score, score)
                  THEN best_scan(regions, i + 1, trans_seg, previous_speaker,
                                 [score |-> score, speaker |-> regions[i].speaker,
                                  confidence |-> overlap_score(trans_seg, regions[i])],
                                 mapping)
                  ELSE best_scan(regions, i + 1, trans_seg, previous_speaker, best, mapping)

\* variant: only the distance between the two starts is measured
boundary_distance_starts_only(trans_seg, region) ==
    Abs(trans_seg.start - region.start)

boundary_distance(trans_seg, region) ==
    Min2(Min2(Abs(trans_seg.start - region.end), Abs(trans_seg.end - region.start)),
         Min2(Abs(trans_seg.start - region.start), Abs(trans_seg.end - region.end)))

FallbackConfidence == Rat(1, 10)

\* the fallback loop; min_distance starts at float('inf')
Infinity == [finite |-> FALSE, value |-> 0]
Below(distance, min_distance) == ~min_distance.finite \/ distance < min_distance.value

RECURSIVE nearest_scan(_, _, _, _, _)
nearest_scan(regions, i, trans_seg, min_distance, best) ==
    IF i > Len(regions) THEN best
    ELSE LET distance == boundary_distance(trans_seg, regions[i])
         IN  IF Below(distance, min_distance)
             THEN nearest_scan(regions, i + 1, trans_seg,
                               [finite |-> TRUE, value |-> distance],
                               [best EXCEPT !.speaker = regions[i].speaker,
                                            !.confidence = FallbackConfidence])
             ELSE nearest_scan(regions, i + 1, trans_seg, min_distance, best)

\* variant: no fallback to the nearest region when nothing overlaps
assign_speaker_without_fallback(regions, trans_seg, previous_speaker, mapping) ==
    best_scan(regions, 1, trans_seg, previous_speaker, NoBest, mapping)

\* best_speaker and best_confidence for one transcript segment
assign_speaker(regions, trans_seg, previous_speaker, mapping) ==
    LET best == best_scan(regions, 1, trans_seg, previous_speaker, NoBest, mapping)
    IN  IF RLt(best.score, RInt(0))
        THEN nearest_scan(regions, 1, trans_seg, Infinity, best)
        ELSE best

\* variant: the product is taken as it comes, without max(0.0, min(1.0, ...))
transcription_quality_unclamped(trans_seg) ==
    RMul(RSub(RInt(1), trans_seg.no_speech_prob),
         RSub(RInt(1), RDiv(RAbs(trans_seg.avg_logprob), RInt(10))))

transcription_quality(trans_seg) ==
    RMax(RInt(0),
         RMin(RInt(1),
              RMul(RSub(RInt(1), trans_seg.no_speech_prob),
                   RSub(RInt(1), RDiv(RAbs(trans_seg.avg_logprob), RInt(10))))))

EnhancedSegment(trans_seg, best) ==
    [start |-> trans_seg.start, end |-> trans_seg.end, text |-> trans_seg.text,
     speaker |-> best.speaker,
     speaker_confidence |-> best.confidence,
     transcription_quality |-> transcription_quality(trans_seg),
     combined_confidence |-> RMul(best.confidence, transcription_quality(trans_seg)),
     avg_logprob |-> trans_seg.avg_logprob,
     no_speech_prob |-> trans_seg.no_speech_prob,
     compression_ratio |-> trans_seg.compression_ratio]

\* the loop over the transcript, carrying previous_speaker
RECURSIVE map_scan(_, _, _, _, _, _)
map_scan(regions, transcription_segments, k, previous_speaker, enhanced_segments, mapping) ==
    IF k > Len(transcription_segments) THEN enhanced_segments
    ELSE LET best == assign_speaker(regions, transcription_segments[k],
                                    previous_speaker, mapping)
         IN  map_scan(regions, transcription_segments, k + 1, best.speaker,
                      Append(enhanced_segments,
                             EnhancedSegment(transcription_segments[k], best)),
                      mapping)

mapping_regions(diarization_segments, mapping) ==
    IF mapping.use_regions
    THEN create_speaker_regions(diarization_segments, RegionMaxGap)
    ELSE segments_as_regions(diarization_segments)

\* variant: a segment that found no speaker is skipped instead of appended
map_speakers_to_segments_skipping(diarization_segments, transcription_segments, mapping) ==
    SelectSeq(map_scan(mapping_regions(diarization_segments, mapping),
                       transcription_segments, 1, "None", <<>>, mapping),
              LAMBDA seg : seg.speaker # "UNKNOWN")

\* variant: previous_speaker stays None, every segment is scored as the first
map_speakers_to_segments_without_context(diarization_segments, transcription_segments, mapping) ==
    [k \in 1..Len(transcription_segments) |->
        EnhancedSegment(transcription_segments[k],
                        assign_speaker(mapping_regions(diarization_segments, mapping),
                                       transcription_segments[k], "None", mapping))]

map_speakers_to_segments(diarization_segments, transcription_segments, mapping) ==
    map_scan(mapping_regions(diarization_segments, mapping),
             transcription_segments, 1, "None", <<>>, mapping)

\* ------------------------------------------------------------------------
\* Transcript segments and the inputs drawn for them
\* ------------------------------------------------------------------------
MaxDiar == 2
MaxTrans == 2

MapDurs == {5, 60}
TransDurs == {0, 30}
TransGaps == {0, 20}

\* model confidence signals of a segment: clear speech and poor speech
ClearSpeech ==
    [avg_logprob |-> Rat(-3, 10), no_speech_prob |-> Rat(1, 10),
     compression_ratio |-> Rat(3, 2)]
PoorSpeech ==
    [avg_logprob |-> RInt(-12), no_speech_prob |-> Rat(6, 10),
     compression_ratio |-> RInt(3)]

TranscriptionSegment(st, en, text, sig) ==
    [start |-> st, end |-> en, text |-> text,
     avg_logprob |-> sig.avg_logprob, no_speech_prob |-> sig.no_speech_prob,
     compression_ratio |-> sig.compression_ratio]

\* every way to add one segment after the last one of s; the signals alternate
ExtendTrans(s) ==
    LET from == IF s = <<>> THEN 0 ELSE s[Len(s)].end
        sig == IF Len(s) % 2 = 0 THEN ClearSpeech ELSE PoorSpeech
    IN  { Append(s, TranscriptionSegment(from + g, from + g + d,
                                         ToString(Len(s) + 1), sig)) :
            g \in TransGaps, d \in TransDurs }

RECURSIVE TransSeqsOfLen(_)
TransSeqsOfLen(k) ==
    IF k = 0 THEN { <<>> }
    ELSE UNION { ExtendTrans(s) : s \in TransSeqsOfLen(k - 1) }

TransSeqs(max) == UNION { TransSeqsOfLen(k) : k \in 0..max }

\* diarization inputs of the mapper: as SegSeqs, over longer durations, on
\* times that are whole halves of a second (exact as binary floats)
MapGaps == {0, 15}

ExtendMapSegs(s) ==
    LET from == IF s = <<>> THEN 0 ELSE s[Len(s)].end
    IN  { Append(s, RawSegment(sp, from + g, from + g + d)) :
            sp \in Speakers, g \in MapGaps, d \in MapDurs }

RECURSIVE MapSegSeqsOfLen(_)
MapSegSeqsOfLen(k) ==
    IF k = 0 THEN { <<>> }
    ELSE UNION { ExtendMapSegs(s) : s \in MapSegSeqsOfLen(k - 1) }

MapSegSeqs(max) == UNION { MapSegSeqsOfLen(k) : k \in 0..max }

\* ------------------------------------------------------------------------
\* QualityGate: thresholds, issues, assessments
\* ------------------------------------------------------------------------
DefaultThresholds ==
    [max_micro_segment_ratio |-> Rat(15, 100),
     min_avg_segment_duration |-> RInt(2),
     max_speaker_switches_per_minute |-> RInt(8),
     min_avg_confidence |-> Rat(7, 10),
     max_no_speech_prob |-> Rat(3, 10),
     max_compression_ratio |-> Rat(25, 10),
     min_speaker_mapping_confidence |-> Rat(6, 10),
     max_ambiguous_segments_ratio |-> Rat(1, 10)]

PassScore == Rat(7, 10)

\* an optional field left at None
None == [n |-> 0, d |-> 0]

QualityIssue(severity, message, suggestion, metric_name, metric_value, threshold_value) ==
    [severity |-> severity, message |-> message, suggestion |-> suggestion,
     metric_name |-> metric_name, metric_value |-> metric_value,
     threshold_value |-> threshold_value]

QualityAssessment(stage, overall_score, is_passed, issues, metrics, recommendations) ==
    [stage |-> stage, overall_score |-> overall_score, passed |-> is_passed,
     issues |-> issues, metrics |-> metrics, recommendations |-> recommendations]

NoMetrics == [k \in {} |-> RInt(0)]

HasAttr(obj, name) == name \in DOMAIN obj

\* seconds, from tenths of a second
Seconds(t) == Rat(t, 10)

RECURSIVE RSum(_)
RSum(s) == IF s = <<>> THEN RInt(0) ELSE RAdd(s[1], RSum(Tail(s)))

RECURSIVE SumOver(_, _)
SumOver(f, S) ==
    IF S = {} THEN 0
    ELSE LET x == CHOOSE y \in S : TRUE IN f[x] + SumOver(f, S \ {x})

\* np.mean of a non-empty list
Mean(s) == RDiv(RSum(s), RInt(Len(s)))

Clamp01(x) == RMax(RInt(0), RMin(RInt(1), x))

CountSeverity(issues, severity) ==
    Cardinality({ i \in 1..Len(issues) : issues[i].severity = severity })

\* the "issue penalty" component before its 10% weight
issue_score(issues) ==
    RSub(RInt(1),
         RAdd(RMul(RInt(CountSeverity(issues, "CRITICAL")), Rat(3, 10)),
              RMul(RInt(CountSeverity(issues, "HIGH")), Rat(1, 10))))

issue_component(issues) == RMul(RMax(RInt(0), issue_score(issues)), Rat(1, 10))

\* variant: a lower pass mark
passed_lenient(overall_score, issues) ==
    RLe(Rat(6, 10), overall_score) /\ CountSeverity(issues, "CRITICAL") = 0

passed(overall_score, issues) ==
    RLe(PassScore, overall_score) /\ CountSeverity(issues, "CRITICAL") = 0

\* the outcome of one check: a sequence of zero or one entries
If(cond, entry) == IF cond THEN <<entry>> ELSE <<>>

\* variant: the fixed assessment of an empty stage reports a HIGH issue
empty_assessment_high(stage, message, suggestion, recommendations) ==
    QualityAssessment(stage, RInt(0), FALSE,
                      <<QualityIssue("HIGH", message, suggestion, "None", None, None)>>,
                      NoMetrics, recommendations)

\* the fixed assessment returned for a stage without segments
empty_assessment(stage, message, suggestion, recommendations) ==
    QualityAssessment(stage, RInt(0), FALSE,
                      <<QualityIssue("CRITICAL", message, suggestion, "None", None, None)>>,
                      NoMetrics, recommendations)

\* ---- diarization -------------------------------------------------------
MicroSegmentLimit == 5

diarization_metrics(diarization) ==
    LET segments == diarization.segments
        total_segments == Len(segments)
        micro_segments == Cardinality({ i \in 1..total_segments :
                                          segments[i].duration < MicroSegmentLimit })
        switches == count_speaker_switches(segments)
        last_end == CHOOSE e \in { segments[i].end : i \in 1..total_segments } :
                        \A j \in 1..total_segments : segments[j].end <= e
        duration == Seconds(last_end)
        speaker_durations == diarization.speaker_durations
        total_duration == SumOver(speaker_durations, DOMAIN speaker_durations)
        percentages == { Rat(100 * speaker_durations[sp], total_duration) :
                           sp \in DOMAIN speaker_durations }
    IN  [k \in { "micro_segment_ratio", "micro_segment_count", "avg_segment_duration",
                 "speaker_switches_per_minute", "total_speaker_switches" }
               \cup (IF DOMAIN speaker_durations # {} THEN {"min_speaker_percentage"} ELSE {})
         |-> CASE k = "micro_segment_ratio" -> Rat(micro_segments, total_segments)
               [] k = "micro_segment_count" -> RInt(micro_segments)
               [] k = "avg_segment_duration" ->
                    Mean([i \in 1..total_segments |-> Seconds(segments[i].duration)])
               [] k = "speaker_switches_per_minute" ->
                    IF RLt(RInt(0), duration)
                    THEN RDiv(RInt(switches), RDiv(duration, RInt(60)))
                    ELSE RInt(0)
               [] k = "total_speaker_switches" -> RInt(switches)
               [] k = "min_speaker_percentage" ->
                    CHOOSE m \in percentages : \A x \in percentages : RLe(m, x)]

\* variant: one severity for every micro-segment ratio over the threshold
micro_segment_severity_flat(micro_ratio) == "MEDIUM"

\* HIGH if micro_ratio > 0.25 else MEDIUM
micro_segment_severity(micro_ratio) ==
    IF RLt(Rat(25, 100), micro_ratio) THEN "HIGH" ELSE "MEDIUM"

diarization_issues(diarization, metrics, thresholds) ==
    LET micro_ratio == metrics["micro_segment_ratio"]
        avg_duration == metrics["avg_segment_duration"]
        switch_rate == metrics["speaker_switches_per_minute"]
    IN  If(RLt(thresholds.max_micro_segment_ratio, micro_ratio),
           QualityIssue(micro_segment_severity(micro_ratio),
                        "High micro-segment ratio",
                        "Apply segment post-processing to merge short segments",
                        "micro_segment_ratio", micro_ratio,
                        thresholds.max_micro_segment_ratio))
        \o If(RLt(avg_duration, thresholds.min_avg_segment_duration),
              QualityIssue("MEDIUM", "Short average segment duration",
                           "May indicate over-segmentation, apply smoothing",
                           "avg_segment_duration", avg_duration,
                           thresholds.min_avg_segment_duration))
        \o If(RLt(thresholds.max_speaker_switches_per_minute, switch_rate),
              QualityIssue("HIGH", "High speaker switch rate",
                           "Likely over-segmentation, apply smoothing and merging",
                           "speaker_switches_per_minute", switch_rate,
                           thresholds.max_speaker_switches_per_minute))
        \o If(/\ DOMAIN diarization.speaker_durations # {}
              /\ RLt(metrics["min_speaker_percentage"], RInt(5))
              /\ Cardinality(DOMAIN diarization.speaker_durations) > 2,
              QualityIssue("LOW", "Imbalanced speaker distribution",
                           "Some speakers may be incorrectly merged or split",
                           "min_speaker_percentage",
                           IF DOMAIN diarization.speaker_durations # {}
                           THEN metrics["min_speaker_percentage"] ELSE None,
                           None))

diarization_recommendations(metrics, thresholds) ==
    If(RLt(thresholds.max_micro_segment_ratio, metrics["micro_segment_ratio"]),
       "Enable segment post-processing")
    \o If(RLt(metrics["avg_segment_duration"], thresholds.min_avg_segment_duration),
          "Apply temporal smoothing to reduce fragmentation")
    \o If(RLt(thresholds.max_speaker_switches_per_minute,
              metrics["speaker_switches_per_minute"]),
          "Increase merge_gap_threshold in segment processing")

diarization_score(metrics, issues) ==
    LET micro_score == RSub(RInt(1), RMin(RInt(1), RDiv(metrics["micro_segment_ratio"],
                                                        Rat(3, 10))))
        duration_part == RMin(RInt(1), RDiv(metrics["avg_segment_duration"], RInt(3)))
        switch_score == RSub(RInt(1),
                             RMin(RInt(1), RDiv(metrics["speaker_switches_per_minute"],
                                                RInt(15))))
    IN  RAdd(RAdd(RAdd(RMul(micro_score, Rat(3, 10)), RMul(duration_part, Rat(3, 10))),
                  RMul(switch_score, Rat(3, 10))),
             issue_component(issues))

assess_diarization_quality(diarization, thresholds) ==
    IF Len(diarization.segments) = 0
    THEN empty_assessment("diarization", "No segments detected",
                          "Check audio file contains speech",
                          <<"Verify audio file is not empty", "Check audio quality">>)
    ELSE LET metrics == diarization_metrics(diarization)
             issues == diarization_issues(diarization, metrics, thresholds)
             overall_score == diarization_score(metrics, issues)
         IN  QualityAssessment("diarization", overall_score,
                               passed(overall_score, issues), issues, metrics,
                               diarization_recommendations(metrics, thresholds))

\* ---- transcription -----------------------------------------------------
\* np.exp on the log-probabilities the transcripts of the model carry,
\* to four decimals
exp(x) ==
    CASE x = RInt(0) -> RInt(1)
      [] x = Rat(-3, 10) -> Rat(7408, 10000)
      [] x = RInt(-1) -> Rat(3679, 10000)

segment_confidence(seg) ==
    IF RLt(RInt(-10), seg.avg_logprob) THEN exp(seg.avg_logprob) ELSE RInt(0)

Collect(segments, name) ==
    SelectSeq(segments, LAMBDA seg : HasAttr(seg, name))

transcription_metrics(segments) ==
    LET with_logprob == Collect(segments, "avg_logprob")
        with_no_speech == Collect(segments, "no_speech_prob")
        with_compression == Collect(segments, "compression_ratio")
    IN  [k \in { "total_segments", "avg_segment_duration" }
               \cup (IF with_logprob # <<>> THEN {"avg_confidence"} ELSE {})
               \cup (IF with_no_speech # <<>> THEN {"avg_no_speech_prob"} ELSE {})
               \cup (IF with_compression # <<>> THEN {"avg_compression_ratio"} ELSE {})
         |-> CASE k = "total_segments" -> RInt(Len(segments))
               [] k = "avg_segment_duration" ->
                    Mean([i \in 1..Len(segments) |->
                            Seconds(segments[i].end - segments[i].start)])
               [] k = "avg_confidence" ->
                    Mean([i \in 1..Len(with_logprob) |-> segment_confidence(with_logprob[i])])
               [] k = "avg_no_speech_prob" ->
                    Mean([i \in 1..Len(with_no_speech) |-> with_no_speech[i].no_speech_prob])
               [] k = "avg_compression_ratio" ->
                    Mean([i \in 1..Len(with_compression) |->
                            with_compression[i].compression_ratio])]

LowConfidence(metrics, thresholds) ==
    /\ "avg_confidence" \in DOMAIN metrics
    /\ RLt(metrics["avg_confidence"], thresholds.min_avg_confidence)

HighNoSpeech(metrics, thresholds) ==
    /\ "avg_no_speech_prob" \in DOMAIN metrics
    /\ RLt(thresholds.max_no_speech_prob, metrics["avg_no_speech_prob"])

HighCompression(metrics, thresholds) ==
    /\ "avg_compression_ratio" \in DOMAIN metrics
    /\ RLt(thresholds.max_compression_ratio, metrics["avg_compression_ratio"])

transcription_issues(metrics, thresholds) ==
    If(LowConfidence(metrics, thresholds),
       QualityIssue("MEDIUM", "Low average confidence",
                    "Consider using larger model or checking audio quality",
                    "avg_confidence",
                    IF "avg_confidence" \in DOMAIN metrics
                    THEN metrics["avg_confidence"] ELSE None,
                    thresholds.min_avg_confidence))
    \o If(HighNoSpeech(metrics, thresholds),
          QualityIssue("HIGH", "High no-speech probability",
                       "Audio may not contain clear speech",
                       "avg_no_speech_prob",
                       IF "avg_no_speech_prob" \in DOMAIN metrics
                       THEN metrics["avg_no_speech_prob"] ELSE None,
                       thresholds.max_no_speech_prob))
    \o If(HighCompression(metrics, thresholds),
          QualityIssue("MEDIUM", "High compression ratio",
                       "May indicate repetitive or problematic transcription",
                       "avg_compression_ratio",
                       IF "avg_compression_ratio" \in DOMAIN metrics
                       THEN metrics["avg_compression_ratio"] ELSE None,
                       thresholds.max_compression_ratio))
    \o If(RLt(metrics["avg_segment_duration"], RInt(1)),
          QualityIssue("LOW", "Very short average segments",
                       "May make speaker mapping more difficult", "None", None, None))

transcription_recommendations(metrics, thresholds) ==
    If(LowConfidence(metrics, thresholds),
       "Use larger Whisper model (e.g., medium or large)")
    \o If(HighNoSpeech(metrics, thresholds), "Verify audio quality and speech content")
    \o If(HighCompression(metrics, thresholds), "Review transcription for repetitions")

\* variant: the confidence component is not capped at 1
transcription_score_uncapped(metrics, issues, thresholds) ==
    LET conf_part ==
            IF "avg_confidence" \in DOMAIN metrics
            THEN RMul(RDiv(metrics["avg_confidence"], thresholds.min_avg_confidence),
                      Rat(4, 10))
            ELSE RMul(Rat(7, 10), Rat(4, 10))
        no_speech_part ==
            IF "avg_no_speech_prob" \in DOMAIN metrics
            THEN RMul(Clamp01(RSub(RInt(1), RDiv(metrics["avg_no_speech_prob"],
                                                 thresholds.max_no_speech_prob))),
                      Rat(3, 10))
            ELSE RMul(Rat(8, 10), Rat(3, 10))
        comp_part ==
            IF "avg_compression_ratio" \in DOMAIN metrics
            THEN RMul(Clamp01(RSub(RInt(1),
                                   RMax(RInt(0),
                                        RDiv(RSub(metrics["avg_compression_ratio"],
                                                  Rat(15, 10)),
                                             thresholds.max_compression_ratio)))),
                      Rat(2, 10))
            ELSE RMul(Rat(8, 10), Rat(2, 10))
    IN  RAdd(RAdd(RAdd(conf_part, no_speech_part), comp_part), issue_component(issues))

transcription_score(metrics, issues, thresholds) ==
    LET conf_part ==
            IF "avg_confidence" \in DOMAIN metrics
            THEN RMul(RMin(RInt(1), RDiv(metrics["avg_confidence"],
                                         thresholds.min_avg_confidence)),
                      Rat(4, 10))
            ELSE RMul(Rat(7, 10), Rat(4, 10))
        no_speech_part ==
            IF "avg_no_speech_prob" \in DOMAIN metrics
            THEN RMul(Clamp01(RSub(RInt(1), RDiv(metrics["avg_no_speech_prob"],
                                                 thresholds.max_no_speech_prob))),
                      Rat(3, 10))
            ELSE RMul(Rat(8, 10), Rat(3, 10))
        comp_part ==
            IF "avg_compression_ratio" \in DOMAIN metrics
            THEN RMul(Clamp01(RSub(RInt(1),
                                   RMax(RInt(0),
                                        RDiv(RSub(metrics["avg_compression_ratio"],
                                                  Rat(15, 10)),
                                             thresholds.max_compression_ratio)))),
                      Rat(2, 10))
            ELSE RMul(Rat(8, 10), Rat(2, 10))
    IN  RAdd(RAdd(RAdd(conf_part, no_speech_part), comp_part), issue_component(issues))

assess_transcription_quality(transcription, thresholds) ==
    IF transcription.segments = <<>>
    THEN empty_assessment("transcription", "No transcription segments",
                          "Check if audio contains speech", <<>>)
    ELSE LET metrics == transcription_metrics(transcription.segments)
             issues == transcription_issues(metrics, thresholds)
             overall_score == transcription_score(metrics, issues, thresholds)
         IN  QualityAssessment("transcription", overall_score,
                               passed(overall_score, issues), issues, metrics,
                               transcription_recommendations(metrics, thresholds))

\* ---- combination -------------------------------------------------------
RapidSwitchGap == 5

\* variant: the confidence of a segment is read from speaker_confidence
mapping_confidences_from_speaker_confidence(segments) ==
    LET found == Collect(segments, "speaker_confidence")
    IN  [i \in 1..Len(found) |-> [confidence |-> found[i].speaker_confidence]]

\* the segments for which hasattr(seg, 'confidence') holds
mapping_confidences(segments) == Collect(segments, "confidence")

combination_metrics(segments) ==
    LET with_confidence == mapping_confidences(segments)
        low_conf_segments ==
            Cardinality({ i \in 1..Len(with_confidence) :
                            RLt(with_confidence[i].confidence, Rat(5, 10)) })
        rapid_switches ==
            Cardinality({ i \in 2..Len(segments) :
                            /\ segments[i - 1].speaker # segments[i].speaker
                            /\ segments[i].start - segments[i - 1].end < RapidSwitchGap })
    IN  [k \in { "ambiguous_segments_ratio", "num_speakers", "rapid_switch_ratio" }
               \cup (IF with_confidence # <<>>
                     THEN {"avg_speaker_mapping_confidence"} ELSE {})
         |-> CASE k = "avg_speaker_mapping_confidence" ->
                    Mean([i \in 1..Len(with_confidence) |-> with_confidence[i].confidence])
               [] k = "ambiguous_segments_ratio" -> Rat(low_conf_segments, Len(segments))
               [] k = "num_speakers" ->
                    RInt(Cardinality({ segments[i].speaker : i \in 1..Len(segments) }))
               [] k = "rapid_switch_ratio" -> Rat(rapid_switches, Len(segments))]

LowMappingConfidence(metrics, thresholds) ==
    /\ "avg_speaker_mapping_confidence" \in DOMAIN metrics
    /\ RLt(metrics["avg_speaker_mapping_confidence"],
           thresholds.min_speaker_mapping_confidence)

combination_issues(metrics, thresholds) ==
    If(LowMappingConfidence(metrics, thresholds),
       QualityIssue("HIGH", "Low speaker mapping confidence",
                    "Speaker assignments may be unreliable",
                    "avg_speaker_mapping_confidence",
                    IF "avg_speaker_mapping_confidence" \in DOMAIN metrics
                    THEN metrics["avg_speaker_mapping_confidence"] ELSE None,
                    thresholds.min_speaker_mapping_confidence))
    \o If(RLt(thresholds.max_ambiguous_segments_ratio, metrics["ambiguous_segments_ratio"]),
          QualityIssue("MEDIUM", "High ambiguous segments ratio",
                       "Many segments have low confidence speaker assignments",
                       "ambiguous_segments_ratio", metrics["ambiguous_segments_ratio"],
                       thresholds.max_ambiguous_segments_ratio))
    \o If(RLt(Rat(15, 100), metrics["rapid_switch_ratio"]),
          QualityIssue("MEDIUM", "High rapid speaker switch ratio",
                       "May indicate speaker mapping issues",
                       "rapid_switch_ratio", metrics["rapid_switch_ratio"], None))

combination_recommendations(metrics, thresholds) ==
    (IF LowMappingConfidence(metrics, thresholds)
     THEN <<"Review speaker assignments manually",
            "Enable enhanced speaker mapping features">>
     ELSE <<>>)
    \o If(RLt(thresholds.max_ambiguous_segments_ratio, metrics["ambiguous_segments_ratio"]),
          "Review ambiguous segments")

combination_score(metrics, issues, thresholds) ==
    LET conf_part ==
            IF "avg_speaker_mapping_confidence" \in DOMAIN metrics
            THEN RMul(RMin(RInt(1), RDiv(metrics["avg_speaker_mapping_confidence"],
                                         thresholds.min_speaker_mapping_confidence)),
                      Rat(5, 10))
            ELSE RMul(Rat(7, 10), Rat(5, 10))
        amb_part ==
            RMul(Clamp01(RSub(RInt(1), RDiv(metrics["ambiguous_segments_ratio"],
                                            thresholds.max_ambiguous_segments_ratio))),
                 Rat(3, 10))
        switch_part ==
            RMul(RMax(RInt(0), RSub(RInt(1), metrics["rapid_switch_ratio"])), Rat(1, 10))
    IN  RAdd(RAdd(RAdd(conf_part, amb_part), switch_part), issue_component(issues))

assess_combination_quality(combination, thresholds) ==
    IF combination.segments = <<>>
    THEN empty_assessment("combination", "No combined segments",
                          "Check diarization and transcription results", <<>>)
    ELSE LET metrics == combination_metrics(combination.segments)
             issues == combination_issues(metrics, thresholds)
             overall_score == combination_score(metrics, issues, thresholds)
         IN  QualityAssessment("combination", overall_score,
                               passed(overall_score, issues), issues, metrics,
                               combination_recommendations(metrics, thresholds))

\* ---- should_reprocess ---------------------------------------------------
ReprocessDecision(reprocess, reason, strategy, suggested_model, suggested_processing) ==
    [should_reprocess |-> reprocess, reason |-> reason, strategy |-> strategy,
     suggested_model |-> suggested_model, suggested_processing |-> suggested_processing]

\* keyword in message.lower(); the number formatted into a message adds no
\* letters, so the fixed part of the message decides
Mentions(message, keyword) ==
    CASE keyword = "micro-segment" -> message \in {"High micro-segment ratio"}
      [] keyword = "switch" ->
           message \in {"High speaker switch rate", "High rapid speaker switch ratio"}
      [] keyword = "confidence" ->
           message \in {"Low average confidence", "Low speaker mapping confidence"}

\* the processing steps one issue asks for
issue_processing(issue) ==
    If(Mentions(issue.message, "micro-segment"), "segment_filtering")
    \o If(Mentions(issue.message, "switch"), "temporal_smoothing")
    \o If(Mentions(issue.message, "confidence"), "enhanced_mapping")

RECURSIVE suggested_scan(_)
suggested_scan(issues) ==
    IF issues = <<>> THEN <<>>
    ELSE issue_processing(issues[1]) \o suggested_scan(Tail(issues))

\* variant: the lowest band ends at 0.5
should_reprocess_wide_low_band(assessment) ==
    IF RLe(Rat(85, 100), assessment.overall_score)
    THEN ReprocessDecision(FALSE, "Quality acceptable", "None", "None", <<>>)
    ELSE IF RLt(assessment.overall_score, Rat(5, 10))
    THEN ReprocessDecision(TRUE, "Quality too low", "use_better_model", "large", <<>>)
    ELSE IF RLt(assessment.overall_score, Rat(7, 10))
    THEN LET suggested_processing == suggested_scan(assessment.issues)
         IN  ReprocessDecision(TRUE, "Quality marginal", "apply_postprocessing", "None",
                               IF suggested_processing = <<>> THEN <<"post_processing">>
                               ELSE suggested_processing)
    ELSE ReprocessDecision(FALSE, "Quality adequate", "None", "None", <<>>)

\* variant: everything under 0.85 is sent back for post-processing
should_reprocess_high_bar(assessment) ==
    IF RLe(Rat(85, 100), assessment.overall_score)
    THEN ReprocessDecision(FALSE, "Quality acceptable", "None", "None", <<>>)
    ELSE IF RLt(assessment.overall_score, Rat(4, 10))
    THEN ReprocessDecision(TRUE, "Quality too low", "use_better_model", "large", <<>>)
    ELSE LET suggested_processing == suggested_scan(assessment.issues)
         IN  ReprocessDecision(TRUE, "Quality marginal", "apply_postprocessing", "None",
                               IF suggested_processing = <<>> THEN <<"post_processing">>
                               ELSE suggested_processing)

should_reprocess(assessment) ==
    IF RLe(Rat(85, 100), assessment.overall_score)
    THEN ReprocessDecision(FALSE, "Quality acceptable", "None", "None", <<>>)
    ELSE IF RLt(assessment.overall_score, Rat(4, 10))
    THEN ReprocessDecision(TRUE, "Quality too low", "use_better_model", "large", <<>>)
    ELSE IF RLt(assessment.overall_score, Rat(7, 10))
    THEN LET suggested_processing == suggested_scan(assessment.issues)
         IN  ReprocessDecision(TRUE, "Quality marginal", "apply_postprocessing", "None",
                               IF suggested_processing = <<>> THEN <<"post_processing">>
                               ELSE suggested_processing)
    ELSE ReprocessDecision(FALSE, "Quality adequate", "None", "None", <<>>)

\* ------------------------------------------------------------------------
\* State
\* ------------------------------------------------------------------------
VARIABLES
    config,                \* SegmentProcessingConfig of the processor
    diarization_result,    \* the DiarizationResult object (updated in place)
    produced,              \* the DiarizationResult as diarization produced it
    proc,                  \* outcome and locals of the last process call
    mapping,               \* use_regions and the three weights
    transcription_result,  \* the TranscriptionResult
    combination_result,    \* the mapper's output, once it has run
    speaker_regions,       \* the regions the mapper built for its scan
    quality_assessments,   \* stage name -> QualityAssessment returned for it
    reprocess_decisions,   \* stage name -> ReprocessDecision returned for it
    options,               \* the orchestrator's constructor arguments
    stages_completed,      \* the local list of PipelineOrchestrator.run
    pipeline_result,       \* the PipelineResult, once run has returned
    pc                     \* the call or pipeline stage that runs next

procVars == <<config, diarization_result, produced, proc>>
mapVars == <<mapping, transcription_result, combination_result, speaker_regions>>
gateVars == <<quality_assessments, reprocess_decisions>>
pipeVars == <<options, stages_completed, pipeline_result>>
vars == <<procVars, mapVars, gateVars, pipeVars, pc>>

DiarizationResult(ok, segments) ==
    [success |-> ok, segments |-> segments,
     num_speakers |-> Cardinality({ segments[i].speaker : i \in 1..Len(segments) }),
     speaker_durations |-> calculate_speaker_durations(segments),
     metadata |-> [model |-> "pyannote"]]

TranscriptionResult(segments) == [success |-> TRUE, segments |-> segments]

NoCall ==
    [status |-> "idle", stats |-> ZeroStats, steps |-> process_steps(<<>>, DefaultConfig),
     records |-> <<>>]

NoCombination == [status |-> "idle", segments |-> <<>>]

NoAssessments == [k \in {} |-> QualityAssessment("none", RInt(0), FALSE, <<>>, NoMetrics, <<>>)]

\* the components a specification does not exercise
ProcessorIdle ==
    /\ config = DefaultConfig
    /\ diarization_result = DiarizationResult(TRUE, <<>>)
    /\ produced = diarization_result
    /\ proc = NoCall

MapperIdle ==
    /\ mapping = DefaultMapping
    /\ transcription_result = TranscriptionResult(<<>>)
    /\ combination_result = NoCombination
    /\ speaker_regions = <<>>

NoDecisions == [k \in {} |-> ReprocessDecision(FALSE, "None", "None", "None", <<>>)]

GateIdle ==
    /\ quality_assessments = NoAssessments
    /\ reprocess_decisions = NoDecisions

\* PipelineOrchestrator.__init__ defaults
DefaultOptions ==
    [skip_diarization |-> FALSE, enable_audio_analysis |-> FALSE,
     enable_segment_processing |-> TRUE, enable_quality_gates |-> FALSE,
     labels_file |-> FALSE, enable_proofreading |-> FALSE, md_output |-> TRUE]

\* run has not returned
NoResult ==
    [success |-> FALSE, stages_completed |-> <<>>, error |-> "None", error_stage |-> "None"]

PipelineIdle ==
    /\ options = DefaultOptions
    /\ stages_completed = <<>>
    /\ pipeline_result = NoResult

\* ------------------------------------------------------------------------
\* SegmentProcessor.process called on a diarization result
\* ------------------------------------------------------------------------
\* the two worked inputs of the processing scenarios, A and B standing for
\* SPEAKER_00 and SPEAKER_01: (A,0,0.4) (A,0.6,1.0) (B,1.0,2.0) and
\* (A,0,0.1) (B,0.1,5.0)
MergeScenario ==
    <<RawSegment("SPEAKER_00", 0, 4), RawSegment("SPEAKER_00", 6, 10),
      RawSegment("SPEAKER_01", 10, 20)>>

FilterScenario == <<RawSegment("SPEAKER_00", 0, 1), RawSegment("SPEAKER_01", 1, 50)>>

\* the ping-pong the smoothing step is written for: four half-second turns,
\* two speakers alternating
PingPongScenario ==
    <<RawSegment("SPEAKER_00", 0, 5), RawSegment("SPEAKER_01", 5, 10),
      RawSegment("SPEAKER_00", 10, 15), RawSegment("SPEAKER_01", 15, 20)>>

\* two short turns of one speaker, further apart than merge_gap_threshold,
\* between two long turns of the other: (A,0,5.0) (B,5.0,5.3) (B,6.4,6.7)
\* (A,6.7,10.0)
SplitTurnScenario ==
    <<RawSegment("SPEAKER_00", 0, 50), RawSegment("SPEAKER_01", 50, 53),
      RawSegment("SPEAKER_01", 64, 67), RawSegment("SPEAKER_00", 67, 100)>>

\* sorted by start, every end after its start, a short turn of one speaker
\* lying inside a longer turn of the same speaker: (A,0,10.0) (A,2.0,5.0)
\* (B,10.0,15.0)
NestedTurnScenario ==
    <<RawSegment("SPEAKER_00", 0, 100), RawSegment("SPEAKER_00", 20, 50),
      RawSegment("SPEAKER_01", 100, 150)>>

ProcessorInit ==
    /\ config \in Configs
    /\ \E ok \in BOOLEAN, segments \in SegSeqs(MaxSegs) \cup {MergeScenario, FilterScenario, PingPongScenario, SplitTurnScenario,
                  NestedTurnScenario} :
         diarization_result = DiarizationResult(ok, segments)
    /\ produced = diarization_result
    /\ proc = NoCall
    /\ MapperIdle
    /\ GateIdle
    /\ PipelineIdle
    /\ pc = "process"

\* processor.process(diarization_result), every branch of it
Process ==
    /\ pc = "process"
    /\ LET call == process(diarization_result, config)
       IN  /\ diarization_result' = call.host
           /\ proc' = [status |-> call.status, stats |-> call.stats, steps |-> call.steps,
                       records |-> input_records(diarization_result, config)]
    /\ pc' = "done"
    /\ UNCHANGED <<config, produced, mapVars, gateVars, pipeVars>>

\* processor.process called once more, on the result of the first call
ProcessAgain ==
    /\ pc = "done"
    /\ proc.status # "idle"
    /\ LET call == process(diarization_result, config)
       IN  /\ diarization_result' = call.host
           /\ proc' = [status |-> call.status, stats |-> call.stats, steps |-> call.steps,
                       records |-> input_records(diarization_result, config)]
    /\ pc' = "done_again"
    /\ UNCHANGED <<config, produced, mapVars, gateVars, pipeVars>>

ProcessorNext == Process \/ ProcessAgain

SpecProcessor == ProcessorInit /\ [][ProcessorNext]_vars

\* ------------------------------------------------------------------------
\* map_speakers_to_segments called on a diarization and a transcript
\* ------------------------------------------------------------------------
\* a one-second turn followed by a six-second turn of the other speaker, and
\* a transcript segment of 1.5 s lying for two thirds on the short turn
ScoringDiarization ==
    <<RawSegment("SPEAKER_00", 0, 10), RawSegment("SPEAKER_01", 10, 70)>>

ScoringTranscript ==
    <<TranscriptionSegment(0, 15, "1", ClearSpeech),
      TranscriptionSegment(15, 45, "2", PoorSpeech)>>

\* a segment of no length at time 0, which no region overlaps, followed by
\* a segment from 5.0 s to 8.0 s
ContextTranscript ==
    <<TranscriptionSegment(0, 0, "1", ClearSpeech),
      TranscriptionSegment(50, 80, "2", PoorSpeech)>>

MapperInit ==
    /\ config = DefaultConfig
    /\ \E segments \in MapSegSeqs(MaxDiar) \cup {ScoringDiarization} :
         diarization_result = DiarizationResult(TRUE, segments)
    /\ produced = diarization_result
    /\ proc = NoCall
    /\ \E use_regions \in BOOLEAN : mapping = [DefaultMapping EXCEPT !.use_regions = use_regions]
    /\ \E segments \in TransSeqs(MaxTrans) \cup {ScoringTranscript, ContextTranscript} :
         transcription_result = TranscriptionResult(segments)
    /\ combination_result = NoCombination
    /\ speaker_regions = <<>>
    /\ GateIdle
    /\ PipelineIdle
    /\ pc = "map"

MapSpeakers ==
    /\ pc = "map"
    /\ combination_result' =
         [status |-> "returned",
          segments |-> map_speakers_to_segments(diarization_result.segments,
                                                transcription_result.segments, mapping)]
    /\ speaker_regions' = mapping_regions(diarization_result.segments, mapping)
    /\ pc' = "done"
    /\ UNCHANGED <<procVars, mapping, transcription_result, gateVars, pipeVars>>

MapperNext == MapSpeakers

SpecMapper == MapperInit /\ [][MapperNext]_vars

\* ------------------------------------------------------------------------
\* create_speaker_regions called on a diarization
\* ------------------------------------------------------------------------
MaxRegionSegs == 3
RegionDurs == {2, 60}
\* a segment starts before the end of the previous one, right at it, at
\* max_gap after it, or later
RegionGaps == {-3, 0, 10, 15}

\* diarization output: ordered by start, each segment of positive length, the
\* turns of one speaker disjoint, the turns of two speakers free to overlap
ExtendRegionSegs(s) ==
    LET from == IF s = <<>> THEN 0 ELSE s[Len(s)].end
        first == IF s = <<>> THEN 0 ELSE s[Len(s)].start
    IN  { Append(s, seg) :
            seg \in { c \in { RawSegment(sp, from + g, from + g + d) :
                                sp \in Speakers, g \in RegionGaps, d \in RegionDurs } :
                        /\ c.start >= first
                        /\ \A j \in 1..Len(s) :
                              s[j].speaker = c.speaker => s[j].end <= c.start } }

RECURSIVE RegionSegSeqsOfLen(_)
RegionSegSeqsOfLen(k) ==
    IF k = 0 THEN { <<>> }
    ELSE UNION { ExtendRegionSegs(s) : s \in RegionSegSeqsOfLen(k - 1) }

RegionSegSeqs(max) == UNION { RegionSegSeqsOfLen(k) : k \in 0..max }

RegionsInit ==
    /\ config = DefaultConfig
    /\ \E segments \in RegionSegSeqs(MaxRegionSegs) :
         diarization_result = DiarizationResult(TRUE, segments)
    /\ produced = diarization_result
    /\ proc = NoCall
    /\ MapperIdle
    /\ GateIdle
    /\ PipelineIdle
    /\ pc = "create_regions"

CreateRegions ==
    /\ pc = "create_regions"
    /\ speaker_regions' = create_speaker_regions(diarization_result.segments, RegionMaxGap)
    /\ pc' = "created_regions"
    /\ UNCHANGED <<procVars, mapping, transcription_result, combination_result,
                   gateVars, pipeVars>>

RegionsNext == CreateRegions

SpecRegions == RegionsInit /\ [][RegionsNext]_vars

\* ------------------------------------------------------------------------
\* The three assessment functions of QualityGate, each called on a stage
\* result
\* ------------------------------------------------------------------------
\* diarization output without silences between the segments
PipeDurs == {2, 25}

ExtendPipeSegs(s) ==
    LET from == IF s = <<>> THEN 0 ELSE s[Len(s)].end
    IN  { Append(s, RawSegment(sp, from, from + d)) : sp \in Speakers, d \in PipeDurs }

RECURSIVE PipeSegSeqsOfLen(_)
PipeSegSeqsOfLen(k) ==
    IF k = 0 THEN { <<>> }
    ELSE UNION { ExtendPipeSegs(s) : s \in PipeSegSeqsOfLen(k - 1) }

PipeSegSeqs(max) == UNION { PipeSegSeqsOfLen(k) : k \in 0..max }

GateSpeakers == Speakers \cup {"SPEAKER_02"}
GateDurs == {2, 60}

ExtendGateSegs(s) ==
    LET from == IF s = <<>> THEN 0 ELSE s[Len(s)].end
    IN  { Append(s, RawSegment(sp, from, from + d)) : sp \in GateSpeakers, d \in GateDurs }

RECURSIVE GateSegSeqsOfLen(_)
GateSegSeqsOfLen(k) ==
    IF k = 0 THEN { <<>> }
    ELSE UNION { ExtendGateSegs(s) : s \in GateSegSeqsOfLen(k - 1) }

GateSegSeqs(max) == UNION { GateSegSeqsOfLen(k) : k \in 0..max }

GateTransDurs == {5, 30}
GateSignals ==
    { ClearSpeech, PoorSpeech,
      [avg_logprob |-> RInt(0), no_speech_prob |-> RInt(0), compression_ratio |-> RInt(1)],
      [avg_logprob |-> RInt(-1), no_speech_prob |-> Rat(3, 10),
       compression_ratio |-> Rat(25, 10)],
      [avg_logprob |-> RInt(0), no_speech_prob |-> Rat(6, 10),
       compression_ratio |-> RInt(3)] }

ExtendGateTrans(s) ==
    LET from == IF s = <<>> THEN 0 ELSE s[Len(s)].end
    IN  { Append(s, TranscriptionSegment(from, from + d, ToString(Len(s) + 1), sig)) :
            d \in GateTransDurs, sig \in GateSignals }

RECURSIVE GateTransSeqsOfLen(_)
GateTransSeqsOfLen(k) ==
    IF k = 0 THEN { <<>> }
    ELSE UNION { ExtendGateTrans(s) : s \in GateTransSeqsOfLen(k - 1) }

GateTransSeqs(max) == UNION { GateTransSeqsOfLen(k) : k \in 0..max }

\* a segment object that also carries a confidence attribute
WithConfidence(seg) ==
    [k \in DOMAIN seg \cup {"confidence"} |->
        IF k = "confidence" THEN seg.speaker_confidence ELSE seg[k]]

\* one micro-segment among four: a micro-segment ratio over the threshold of
\* 0.15 and not over 0.25
FewMicroSegments ==
    <<RawSegment("SPEAKER_00", 0, 60), RawSegment("SPEAKER_01", 60, 62),
      RawSegment("SPEAKER_00", 62, 122), RawSegment("SPEAKER_01", 122, 182)>>

GateDiarizationInit ==
    /\ \E segments \in GateSegSeqs(MaxSegs) \cup {FewMicroSegments} :
         diarization_result = DiarizationResult(TRUE, segments)
    /\ produced = diarization_result
    /\ config = DefaultConfig
    /\ proc = NoCall
    /\ MapperIdle
    /\ pc = "assess_diarization"

GateTranscriptionInit ==
    /\ ProcessorIdle
    /\ mapping = DefaultMapping
    /\ \E segments \in GateTransSeqs(MaxTrans) :
         transcription_result = TranscriptionResult(segments)
    /\ combination_result = NoCombination
    /\ speaker_regions = <<>>
    /\ pc = "assess_transcription"

GateCombinationInit ==
    /\ \E segments \in PipeSegSeqs(MaxDiar) :
         diarization_result = DiarizationResult(TRUE, segments)
    /\ produced = diarization_result
    /\ config = DefaultConfig
    /\ proc = NoCall
    /\ mapping = DefaultMapping
    /\ \E segments \in TransSeqs(MaxTrans) :
         transcription_result = TranscriptionResult(segments)
    /\ \E attr \in BOOLEAN :
         LET enhanced == map_speakers_to_segments(diarization_result.segments,
                                                  transcription_result.segments, mapping)
         IN  combination_result =
               [status |-> "returned",
                segments |-> IF attr
                             THEN [i \in 1..Len(enhanced) |-> WithConfidence(enhanced[i])]
                             ELSE enhanced]
    /\ speaker_regions = <<>>
    /\ pc = "assess_combination"

GateInit ==
    /\ GateDiarizationInit \/ GateTranscriptionInit \/ GateCombinationInit
    /\ GateIdle
    /\ PipelineIdle

Assess(stage, assessment) ==
    /\ pc = "assess_" \o stage
    /\ quality_assessments' =
         [k \in DOMAIN quality_assessments \cup {stage} |->
            IF k = stage THEN assessment ELSE quality_assessments[k]]
    /\ pc' = "done"
    /\ UNCHANGED <<procVars, mapVars, pipeVars, reprocess_decisions>>

AssessDiarization ==
    Assess("diarization", assess_diarization_quality(diarization_result, DefaultThresholds))

AssessTranscription ==
    Assess("transcription",
           assess_transcription_quality(transcription_result, DefaultThresholds))

AssessCombination ==
    Assess("combination", assess_combination_quality(combination_result, DefaultThresholds))

\* gate.should_reprocess(assessment) on the assessment just returned
ShouldReprocess ==
    /\ pc = "done"
    /\ DOMAIN quality_assessments # {}
    /\ DOMAIN reprocess_decisions = {}
    /\ reprocess_decisions' =
         [stage \in DOMAIN quality_assessments |-> should_reprocess(quality_assessments[stage])]
    /\ UNCHANGED <<procVars, mapVars, pipeVars, quality_assessments, pc>>

GateNext == AssessDiarization \/ AssessTranscription \/ AssessCombination \/ ShouldReprocess

SpecGate == GateInit /\ [][GateNext]_vars

\* ------------------------------------------------------------------------
\* PipelineOrchestrator.run: the stages in the order of the code, the
\* diarization and transcription engines as nondeterministic producers
\* ------------------------------------------------------------------------
MaxPipeSegs == 2
MaxPipeTrans == 1

Options ==
    [skip_diarization : BOOLEAN, enable_audio_analysis : BOOLEAN,
     enable_segment_processing : BOOLEAN, enable_quality_gates : BOOLEAN,
     labels_file : BOOLEAN, enable_proofreading : BOOLEAN, md_output : BOOLEAN]

\* back-to-back transcript segments of three seconds, clear and poor speech
\* alternating
RECURSIVE PipeTransSeqOfLen(_)
PipeTransSeqOfLen(k) ==
    IF k = 0 THEN <<>>
    ELSE Append(PipeTransSeqOfLen(k - 1),
                TranscriptionSegment((k - 1) * 30, k * 30, ToString(k),
                                     IF k % 2 = 1 THEN ClearSpeech ELSE PoorSpeech))

PipeTransSeqs(max) == { PipeTransSeqOfLen(k) : k \in 0..max }

Init ==
    /\ options \in Options
    /\ config \in Configs
    /\ diarization_result = DiarizationResult(TRUE, <<>>)
    /\ produced = diarization_result
    /\ proc = NoCall
    /\ MapperIdle
    /\ GateIdle
    /\ stages_completed = <<>>
    /\ pipeline_result = NoResult
    /\ pc = "validation"

Completed(stage) == \E i \in 1..Len(stages_completed) : stages_completed[i] = stage

\* the file handed to labeling and proofreading: the combined transcript, or
\* else the markdown transcript when that format was requested
main_output_file == ~options.skip_diarization \/ options.md_output

\* the stage that follows, from the conditions of run in their order
AfterProofreading == "finish"
AfterLabeling ==
    IF options.enable_proofreading /\ main_output_file THEN "proofreading"
    ELSE AfterProofreading
AfterQualityAssessment ==
    IF options.labels_file /\ main_output_file THEN "labeling" ELSE AfterLabeling
AfterCombination ==
    IF options.enable_quality_gates THEN "quality_assessment" ELSE AfterQualityAssessment
AfterTranscription ==
    IF ~options.skip_diarization THEN "combination" ELSE AfterCombination
\* variant: transcription follows diarization at once
AfterDiarization_without_processing == "transcription"

AfterDiarization ==
    IF options.enable_segment_processing THEN "segment_processing" ELSE "transcription"
AfterAudioAnalysis ==
    IF ~options.skip_diarization THEN "diarization" ELSE "transcription"
AfterValidation ==
    IF options.enable_audio_analysis /\ ~options.skip_diarization THEN "audio_analysis"
    ELSE AfterAudioAnalysis

\* stages_completed.append(stage) and on to the next stage
Complete(stage, next) ==
    /\ stages_completed' = Append(stages_completed, stage)
    /\ pc' = next
    /\ UNCHANGED <<options, pipeline_result>>

\* the except block of run: the stage raised
Fail(stage) ==
    /\ pipeline_result' =
         [success |-> FALSE, stages_completed |-> stages_completed,
          error |-> stage \o " raised",
          error_stage |-> IF stages_completed # <<>>
                          THEN stages_completed[Len(stages_completed)]
                          ELSE "validation"]
    /\ pc' = "done"
    /\ UNCHANGED <<options, stages_completed>>

Validate ==
    /\ pc = "validation"
    /\ \/ Complete("validation", AfterValidation)
       \/ Fail("validation")
    /\ UNCHANGED <<procVars, mapVars, gateVars>>

\* run_audio_analysis_stage returns None when the analyzer raises
AudioAnalysis ==
    /\ pc = "audio_analysis"
    /\ Complete("audio_analysis", AfterAudioAnalysis)
    /\ UNCHANGED <<procVars, mapVars, gateVars>>

Diarize ==
    /\ pc = "diarization"
    /\ \/ /\ \E segments \in PipeSegSeqs(MaxPipeSegs) :
               diarization_result' = DiarizationResult(TRUE, segments)
          /\ produced' = diarization_result'
          /\ Complete("diarization", AfterDiarization)
       \/ /\ Fail("diarization")
          /\ UNCHANGED <<diarization_result, produced>>
    /\ UNCHANGED <<config, proc, mapVars, gateVars>>

\* run_segment_processing_stage: process updates the result object it is
\* given; when process raises, the stage returns that same object
SegmentProcessing ==
    /\ pc = "segment_processing"
    /\ LET call == process(diarization_result, config)
       IN  /\ diarization_result' = call.host
           /\ proc' = [status |-> call.status, stats |-> call.stats, steps |-> call.steps,
                       records |-> input_records(diarization_result, config)]
    /\ Complete("segment_processing", "transcription")
    /\ UNCHANGED <<config, produced, mapVars, gateVars>>

Transcribe ==
    /\ pc = "transcription"
    /\ \/ /\ \E segments \in PipeTransSeqs(MaxPipeTrans) :
               transcription_result' = TranscriptionResult(segments)
          /\ Complete("transcription", AfterTranscription)
       \/ /\ Fail("transcription")
          /\ UNCHANGED transcription_result
    /\ UNCHANGED <<procVars, mapping, combination_result, speaker_regions, gateVars>>

Combine ==
    /\ pc = "combination"
    /\ \/ /\ combination_result' =
               [status |-> "returned",
                segments |-> map_speakers_to_segments(diarization_result.segments,
                                                      transcription_result.segments, mapping)]
          /\ speaker_regions' = mapping_regions(diarization_result.segments, mapping)
          /\ Complete("combination", AfterCombination)
       \/ /\ Fail("combination")
          /\ UNCHANGED <<combination_result, speaker_regions>>
    /\ UNCHANGED <<procVars, mapping, transcription_result, gateVars>>

\* run_quality_assessment_stage: one assessment per result that exists
RunQualityAssessment ==
    /\ pc = "quality_assessment"
    /\ quality_assessments' =
         [stage \in { k \in {"diarization", "combination"} : Completed(k) }
                    \cup {"transcription"} |->
            CASE stage = "diarization" ->
                   assess_diarization_quality(diarization_result, DefaultThresholds)
              [] stage = "transcription" ->
                   assess_transcription_quality(transcription_result, DefaultThresholds)
              [] stage = "combination" ->
                   assess_combination_quality(combination_result, DefaultThresholds)]
    /\ Complete("quality_assessment", AfterQualityAssessment)
    /\ UNCHANGED <<procVars, mapVars, reprocess_decisions>>

Label ==
    /\ pc = "labeling"
    /\ \/ Complete("labeling", AfterLabeling)
       \/ Fail("labeling")
    /\ UNCHANGED <<procVars, mapVars, gateVars>>

\* run_proofreading_stage returns its input file when the proofreader raises
Proofread ==
    /\ pc = "proofreading"
    /\ Complete("proofreading", AfterProofreading)
    /\ UNCHANGED <<procVars, mapVars, gateVars>>

Finish ==
    /\ pc = "finish"
    /\ pipeline_result' =
         [success |-> TRUE, stages_completed |-> stages_completed,
          error |-> "None", error_stage |-> "None"]
    /\ pc' = "done"
    /\ UNCHANGED <<procVars, mapVars, gateVars, options, stages_completed>>

Next ==
    \/ Validate
    \/ AudioAnalysis
    \/ Diarize
    \/ SegmentProcessing
    \/ Transcribe
    \/ Combine
    \/ RunQualityAssessment
    \/ Label
    \/ Proofread
    \/ Finish

Spec == Init /\ [][Next]_vars

\* ========================================================================
\* Properties of SegmentProcessor.process (checked under SpecProcessor)
\* ========================================================================
Called == pc = "done" /\ proc.status # "idle"
Processed == Called /\ ~skips_processing(produced, config)

\* C4: the result of process never has more segments than its input, and
\* none of the three steps (filter, merge, smooth with re-merge) returns more
\* segments than it was given.
C4_MonotonicCleanup ==
    Called =>
        /\ Len(diarization_result.segments) <= Len(produced.segments)
        /\ Len(proc.steps.filtered) <= Len(proc.steps.input)
        /\ Len(proc.steps.merged) <= Len(proc.steps.filtered)
        /\ Len(proc.steps.smoothed) <= Len(proc.steps.merged)
        /\ Processed => /\ proc.steps.input = produced.segments
                        /\ proc.steps.smoothed = diarization_result.segments

\* a call that returned after the filter removed a segment and a merge joined two
C4_Witness ==
    /\ Processed
    /\ proc.status = "returned"
    /\ Len(proc.steps.filtered) < Len(proc.steps.input)
    /\ Len(proc.steps.smoothed) < Len(proc.steps.filtered)
    /\ Len(diarization_result.segments) < Len(produced.segments)

\* C5: for an input of at least 3 segments, the number of adjacent speaker
\* changes after process (speaker_switches_after) is at most the number
\* before it (speaker_switches_before).
C5_SwitchReduction ==
    (Called /\ Len(produced.segments) >= 3) =>
        /\ count_speaker_switches(diarization_result.segments)
             <= count_speaker_switches(produced.segments)
        /\ Processed =>
             /\ proc.stats.speaker_switches_before = count_speaker_switches(produced.segments)
             /\ proc.stats.speaker_switches_after
                  = count_speaker_switches(diarization_result.segments)
             /\ proc.stats.speaker_switches_after <= proc.stats.speaker_switches_before

\* a processed input of 3 segments that lost speaker changes
C5_Witness ==
    /\ Processed
    /\ proc.status = "returned"
    /\ Len(produced.segments) >= 3
    /\ proc.stats.speaker_switches_after < proc.stats.speaker_switches_before

\* C6: with processing enabled and a successful result of at least one
\* well-formed segment, process returns normally and raises nothing.
C6_ProcessNeverRaises ==
    (Called /\ config.enabled /\ produced.success /\ Len(produced.segments) >= 1)
        => proc.status = "returned"

\* ========================================================================
\* Properties of map_speakers_to_segments (checked under SpecMapper)
\* ========================================================================
Mapped == combination_result.status = "returned"
Transcript == transcription_result.segments
Enhanced == combination_result.segments
Regions == mapping_regions(diarization_result.segments, mapping)
DiarizationSpeakers ==
    { diarization_result.segments[i].speaker : i \in 1..Len(diarization_result.segments) }

\* the transcript segment and the region share a stretch of positive length
Overlaps(seg, region) == Max2(seg.start, region.start) < Min2(seg.end, region.end)
OverlapsNoRegion(seg) == \A i \in 1..Len(Regions) : ~Overlaps(seg, Regions[i])

\* the smallest of the four gaps between the edges of segment and region
EdgeGap(seg, region) ==
    LET gaps == { Abs(seg.start - region.end), Abs(seg.end - region.start),
                  Abs(seg.start - region.start), Abs(seg.end - region.end) }
    IN  CHOOSE g \in gaps : \A h \in gaps : g <= h

NearestSpeakers(seg) ==
    { Regions[i].speaker : i \in { j \in 1..Len(Regions) :
          \A l \in 1..Len(Regions) : EdgeGap(seg, Regions[j]) <= EdgeGap(seg, Regions[l]) } }

\* C1: the mapper returns exactly one enhanced segment per transcript
\* segment, in the transcript's order: the k-th output carries the start,
\* end and text of the k-th transcript segment, whatever the diarization is.
C1_Coverage ==
    Mapped =>
        /\ Len(Enhanced) = Len(Transcript)
        /\ \A k \in 1..Len(Transcript) :
             /\ Enhanced[k].start = Transcript[k].start
             /\ Enhanced[k].end = Transcript[k].end
             /\ Enhanced[k].text = Transcript[k].text

\* two transcript segments mapped, one against no diarization at all or
\* against regions it does not overlap
C1_Witness ==
    /\ Mapped
    /\ Len(Transcript) = 2
    /\ Len(Enhanced) = 2
    /\ \E k \in 1..2 : OverlapsNoRegion(Transcript[k])
    /\ Enhanced[1].text # Enhanced[2].text

\* C2: an output segment is labeled UNKNOWN exactly when the diarization
\* input is empty (then with speaker_confidence 0); with at least one
\* diarization segment every output speaker is a diarization speaker.
C2_NeverUnattributed ==
    Mapped =>
        \A k \in 1..Len(Enhanced) :
            /\ (Enhanced[k].speaker = "UNKNOWN") <=> (diarization_result.segments = <<>>)
            /\ diarization_result.segments = <<>> => Enhanced[k].speaker_confidence = RInt(0)
            /\ diarization_result.segments # <<>> => Enhanced[k].speaker \in DiarizationSpeakers

\* a diarization with segments and a transcript segment that overlaps none
C2_Witness ==
    /\ Mapped
    /\ diarization_result.segments # <<>>
    /\ \E k \in 1..Len(Enhanced) :
         /\ OverlapsNoRegion(Transcript[k])
         /\ Enhanced[k].speaker \in DiarizationSpeakers

\* C3: a transcript segment that overlaps none of the (one or more) regions
\* is still labeled: with the speaker of a region at minimum boundary
\* distance, and with speaker_confidence 0.1.
C3_FallbackGuarantee ==
    (Mapped /\ Len(Regions) > 0) =>
        \A k \in 1..Len(Enhanced) :
            OverlapsNoRegion(Transcript[k]) =>
                /\ Enhanced[k].speaker \in NearestSpeakers(Transcript[k])
                /\ Enhanced[k].speaker_confidence = Rat(1, 10)

\* a segment outside two regions of different speakers at different distances
C3_Witness ==
    /\ Mapped
    /\ \E k \in 1..Len(Enhanced) :
         /\ OverlapsNoRegion(Transcript[k])
         /\ \E i, j \in 1..Len(Regions) :
              /\ Regions[i].speaker # Regions[j].speaker
              /\ EdgeGap(Transcript[k], Regions[i]) < EdgeGap(Transcript[k], Regions[j])
         /\ Enhanced[k].speaker_confidence = Rat(1, 10)

\* ========================================================================
\* Properties of the QualityGate assessments (SpecGate)
\* ========================================================================
Assessed(stage) == pc = "done" /\ stage \in DOMAIN quality_assessments

AssessedStages == IF pc = "done" THEN DOMAIN quality_assessments ELSE {}

\* the segments the assessment of a stage was computed from
StageSegments(stage) ==
    CASE stage = "diarization" -> diarization_result.segments
      [] stage = "transcription" -> transcription_result.segments
      [] stage = "combination" -> combination_result.segments

Criticals(assessment) ==
    { i \in 1..Len(assessment.issues) : assessment.issues[i].severity = "CRITICAL" }

\* C8: an assessment is marked passed only if its overall score is at least
\* 0.7 and none of its issues has CRITICAL severity.
C8_PassCriterion ==
    \A stage \in AssessedStages :
        LET a == quality_assessments[stage]
        IN  a.passed => (a.overall_score.n * 10 >= 7 * a.overall_score.d /\ Criticals(a) = {})

\* an assessment of a non-empty stage that passed although it reports issues
C8_Witness ==
    \E stage \in AssessedStages :
        /\ quality_assessments[stage].passed
        /\ Len(quality_assessments[stage].issues) > 0

\* C9: the overall score of every assessment lies between 0 and 1 inclusive.
C9_ScoreRange ==
    \A stage \in AssessedStages :
        LET score == quality_assessments[stage].overall_score
        IN  /\ score.d > 0
            /\ score.n >= 0
            /\ score.n <= score.d

\* a transcription of segments with the best possible signals, which scores
\* exactly 1
C9_Witness ==
    /\ Assessed("transcription")
    /\ Len(transcription_result.segments) > 0
    /\ quality_assessments["transcription"].overall_score = RInt(1)

\* C10: a stage result without segments is assessed with score 0, not
\* passed, exactly one issue of CRITICAL severity and no metrics.
C10_EmptyInputFails ==
    \A stage \in AssessedStages :
        StageSegments(stage) = <<>> =>
            LET a == quality_assessments[stage]
            IN  /\ a.overall_score = RInt(0)
                /\ ~a.passed
                /\ Len(a.issues) = 1
                /\ Criticals(a) = {1}
                /\ DOMAIN a.metrics = {}

C10_Witness ==
    \E stage \in AssessedStages :
        /\ StageSegments(stage) = <<>>
        /\ quality_assessments[stage].stage = stage

\* ========================================================================
\* Properties of PipelineOrchestrator.run (Spec)
\* ========================================================================
\* C7: when segment processing raises inside run_segment_processing_stage,
\* the pipeline goes on, and the diarization result the later stages work
\* with has the segments and speaker_durations that diarization produced.
C7_FallbackToUnprocessed ==
    proc.status = "raised" =>
        /\ Completed("segment_processing")
        /\ pipeline_result.error_stage # "diarization"
        /\ diarization_result.segments = produced.segments
        /\ diarization_result.speaker_durations = produced.speaker_durations

\* ========================================================================
\* Properties of QualityGate.should_reprocess (SpecGate)
\* ========================================================================
Decided == DOMAIN reprocess_decisions

\* score >= n/100, for an exact comparison of a rational score
AtLeast(score, n) == score.n * 100 >= n * score.d

\* C11: should_reprocess partitions the score range: at least 0.85 and
\* [0.7, 0.85) give no reprocessing; below 0.4 gives use_better_model with
\* the large model; [0.4, 0.7) gives apply_postprocessing with a non-empty
\* list of processing steps.
C11_ReprocessPartition ==
    \A stage \in Decided :
        LET score == quality_assessments[stage].overall_score
            decision == reprocess_decisions[stage]
        IN  /\ AtLeast(score, 70) => ~decision.should_reprocess
            /\ ~AtLeast(score, 40) =>
                 /\ decision.should_reprocess
                 /\ decision.strategy = "use_better_model"
                 /\ decision.suggested_model = "large"
            /\ (AtLeast(score, 40) /\ ~AtLeast(score, 70)) =>
                 /\ decision.should_reprocess
                 /\ decision.strategy = "apply_postprocessing"
                 /\ decision.suggested_processing # <<>>

\* a decision in the marginal band whose steps come from the issue messages
C11_Witness ==
    \E stage \in Decided :
        /\ AtLeast(quality_assessments[stage].overall_score, 40)
        /\ ~AtLeast(quality_assessments[stage].overall_score, 70)
        /\ reprocess_decisions[stage].suggested_processing # <<"post_processing">>

\* ========================================================================
\* Properties of the steps of SegmentProcessor.process (SpecProcessor)
\* ========================================================================
\* the k-th smallest element of a set of numbers
Kth(S, k) == CHOOSE x \in S : Cardinality({ y \in S : y <= x }) = k

\* segment i + 1 of segs cannot be folded onto segment i
Breaks(segs, i) ==
    \/ segs[i + 1].speaker # segs[i].speaker
    \/ segs[i + 1].start - segs[i].end > config.merge_gap_threshold

\* the positions of segs at which a new accumulator starts
RunStarts(segs) == { i \in 1..Len(segs) : i = 1 \/ Breaks(segs, i - 1) }

RunEnd(segs, k) ==
    IF k = Cardinality(RunStarts(segs)) THEN Len(segs) ELSE Kth(RunStarts(segs), k + 1) - 1

\* C12: the merge step folds a segment into the accumulator exactly when it
\* has the accumulator's speaker and starts at most merge_gap_threshold
\* after the accumulator's end; each merged segment runs from the first
\* folded start to the last folded end. The scenario (A,0,0.4) (A,0.6,1.0)
\* (B,1.0,2.0) with threshold 1.0 is processed to (A,0,1.0) (B,1.0,2.0).
C12_MergeRule ==
    Processed =>
        LET segs == proc.steps.filtered
            merged == proc.steps.merged
        IN  /\ Len(merged) = Cardinality(RunStarts(segs))
            /\ \A k \in 1..Len(merged) :
                 /\ merged[k].speaker = segs[Kth(RunStarts(segs), k)].speaker
                 /\ merged[k].start = segs[Kth(RunStarts(segs), k)].start
                 /\ merged[k].end = segs[RunEnd(segs, k)].end
                 /\ merged[k].duration = merged[k].end - merged[k].start
            /\ (produced.segments = MergeScenario /\ config = DefaultConfig) =>
                 diarization_result.segments =
                     <<RawSegment("SPEAKER_00", 0, 10), RawSegment("SPEAKER_01", 10, 20)>>

\* a call in which one gap was bridged and another, wider than the
\* threshold, was not
C12_Witness ==
    /\ Processed
    /\ Len(proc.steps.filtered) = 3
    /\ Len(proc.steps.merged) = 2
    /\ \E i \in 1..2 :
         /\ proc.steps.filtered[i + 1].speaker = proc.steps.filtered[i].speaker
         /\ proc.steps.filtered[i + 1].start - proc.steps.filtered[i].end
              > config.merge_gap_threshold

\* the positions of the input that the filter has to keep
Kept == { i \in 1..Len(proc.steps.input) :
            proc.steps.input[i].duration >= config.min_segment_duration }

\* C13: the filter step removes exactly the segments shorter than
\* min_segment_duration (one as long as the threshold stays), keeps the
\* others unchanged and in order, and counts the removed ones in
\* micro_segments_removed. The scenario (A,0,0.1) (B,0.1,5.0) with threshold
\* 0.3 is processed to (B,0.1,5.0).
C13_FilterRule ==
    Processed =>
        /\ Len(proc.steps.filtered) = Cardinality(Kept)
        /\ \A k \in 1..Len(proc.steps.filtered) :
             proc.steps.filtered[k] = proc.steps.input[Kth(Kept, k)]
        /\ proc.stats.micro_segments_removed = Len(proc.steps.input) - Cardinality(Kept)
        /\ (produced.segments = FilterScenario /\ config = DefaultConfig) =>
             diarization_result.segments = <<RawSegment("SPEAKER_01", 1, 50)>>

\* a call that dropped the segment between two others and kept both
C13_Witness ==
    /\ Processed
    /\ Len(proc.steps.input) = 3
    /\ Kept = {1, 3}
    /\ proc.stats.micro_segments_removed = 1

\* ------------------------------------------------------------------------
\* C14: Every diarization segment belongs to exactly one region: the
\* regions' segment_count values are each at least 1 and sum to the number of
\* input segments, so they cut the input into consecutive runs; every
\* segment of a run has the speaker of its region, and its interval lies
\* inside the region's [start, end].
\* ------------------------------------------------------------------------
RegionsCreated == pc = "created_regions"

RegionCounts == [r \in 1..Len(speaker_regions) |-> speaker_regions[r].segment_count]

\* index of the first input segment folded into region r
RegionFirst(r) == 1 + SumSeq(SubSeq(RegionCounts, 1, r - 1))

RegionMembers(r) ==
    { i \in 1..Len(diarization_result.segments) :
        RegionFirst(r) <= i /\ i < RegionFirst(r) + RegionCounts[r] }

RegionsOrdered ==
    \A r \in 1..(Len(speaker_regions) - 1) :
        speaker_regions[r].start <= speaker_regions[r + 1].start

RegionsDisjoint ==
    \A r, q \in 1..Len(speaker_regions) :
        r < q => speaker_regions[r].end <= speaker_regions[q].start

RegionsWellFormed ==
    \A r \in 1..Len(speaker_regions) :
        /\ speaker_regions[r].end >= speaker_regions[r].start
        /\ speaker_regions[r].duration = speaker_regions[r].end - speaker_regions[r].start

InputDisjoint ==
    \A i \in 1..(Len(diarization_result.segments) - 1) :
        diarization_result.segments[i].end <= diarization_result.segments[i + 1].start

C15_RegionsOrderedDisjointWhenInputIs ==
    RegionsCreated =>
        /\ RegionsOrdered
        /\ RegionsWellFormed
        /\ InputDisjoint => RegionsDisjoint

\* the statement as the specification words it: non-overlapping for every
\* input ordered by start
C15_RegionsAlwaysDisjoint ==
    RegionsCreated => RegionsOrdered /\ RegionsWellFormed /\ RegionsDisjoint

\* a disjoint input folded into two regions, the later one not starting at 0
C15_Witness ==
    /\ RegionsCreated
    /\ InputDisjoint
    /\ Len(diarization_result.segments) = 3
    /\ Len(speaker_regions) = 2
    /\ speaker_regions[2].segment_count = 2
    /\ speaker_regions[2].start > 0

\* ------------------------------------------------------------------------
\* C16: When the configuration is disabled, or the diarization reports
\* success = False, or it has no segment, process returns its input with
\* segments, speaker_durations and metadata unchanged and raises nothing.
\* ------------------------------------------------------------------------
NothingToProcess ==
    \/ ~config.enabled
    \/ ~produced.success
    \/ Len(produced.segments) = 0

C16_SkippedInputUnchanged ==
    Called /\ NothingToProcess =>
        /\ proc.status = "returned"
        /\ diarization_result = produced
        /\ diarization_result.segments = produced.segments
        /\ diarization_result.speaker_durations = produced.speaker_durations
        /\ diarization_result.metadata = produced.metadata

\* a failed diarization whose segments the enabled steps would have changed
C16_Witness ==
    /\ Called
    /\ config.enabled
    /\ ~produced.success
    /\ Len(produced.segments) = 3
    /\ process_steps(produced.segments, config).smoothed # produced.segments
    /\ diarization_result = produced

\* ------------------------------------------------------------------------
\* C17: Within one run the stages execute one after the other in the order
\* of their data dependencies: combination starts only once diarization
\* (and segment processing, when enabled) and transcription have
\* completed; the quality assessment of a run that combines starts only once
\* combination has completed; every stage is appended to stages_completed
\* when it is the one executing, so the list is in execution order; with
\* skip_diarization neither segment processing nor combination ever runs.
\* ------------------------------------------------------------------------
StageOrder ==
    <<"validation", "audio_analysis", "diarization", "segment_processing",
      "transcription", "combination", "quality_assessment", "labeling", "proofreading">>

StageRank(stage) == CHOOSE k \in 1..Len(StageOrder) : StageOrder[k] = stage

CombinationInputsReady ==
    /\ Completed("diarization")
    /\ Completed("transcription")
    /\ options.enable_segment_processing => Completed("segment_processing")

StagesInOrder ==
    /\ \A i \in 1..Len(stages_completed) :
          \E k \in 1..Len(StageOrder) : StageOrder[k] = stages_completed[i]
    /\ \A i, j \in 1..Len(stages_completed) :
          i < j => StageRank(stages_completed[i]) < StageRank(stages_completed[j])

StageDependencies ==
    /\ pc = "combination" \/ Completed("combination") => CombinationInputsReady
    /\ pc = "segment_processing" \/ Completed("segment_processing") => Completed("diarization")
    /\ (pc = "quality_assessment" \/ Completed("quality_assessment"))
           /\ ~options.skip_diarization => Completed("combination")
    /\ "combination" \in DOMAIN quality_assessments => Completed("combination")
    /\ StagesInOrder
    /\ options.skip_diarization =>
          /\ pc \notin {"segment_processing", "combination"}
          /\ ~Completed("segment_processing") /\ ~Completed("combination")
          /\ proc = NoCall
          /\ combination_result = NoCombination

\* one stage per step: the stage appended is the one that was executing
StageStep ==
    stages_completed' # stages_completed =>
        stages_completed' = Append(stages_completed, pc)

Interior(segs, i) == 1 < i /\ i < Len(segs)

\* segment i of the merge output is a short turn between two turns of one
\* other speaker, the turn before it speaking as `before`
Blip(i, before) ==
    LET merged == proc.steps.merged
    IN  /\ Interior(merged, i)
        /\ merged[i].duration < config.smoothing_window
        /\ before = merged[i + 1].speaker
        /\ before # merged[i].speaker

C18_SmoothingInScanOrder ==
    Processed =>
        LET merged == proc.steps.merged
            reassigned == proc.steps.reassigned
        IN  /\ Len(reassigned) = Len(merged)
            /\ \A i \in 1..Len(merged) :
                  /\ reassigned[i].speaker =
                        IF i > 1 /\ Blip(i, reassigned[i - 1].speaker)
                        THEN reassigned[i - 1].speaker
                        ELSE merged[i].speaker
                  /\ reassigned[i].start = merged[i].start
                  /\ reassigned[i].end = merged[i].end

\* the statement with the neighbours read from the merge output itself
C18_SmoothingOnMergeOutput ==
    Processed =>
        LET merged == proc.steps.merged
            reassigned == proc.steps.reassigned
        IN  /\ Len(reassigned) = Len(merged)
            /\ \A i \in 1..Len(merged) :
                  reassigned[i].speaker =
                     IF i > 1 /\ Blip(i, merged[i - 1].speaker)
                     THEN merged[i - 1].speaker
                     ELSE merged[i].speaker

\* the second turn was reassigned, and the third, a blip in the merge output,
\* therefore was not
C18_Witness ==
    /\ Processed
    /\ Len(proc.steps.merged) = 4
    /\ proc.steps.reassigned[2].speaker # proc.steps.merged[2].speaker
    /\ Blip(3, proc.steps.merged[2].speaker)
    /\ proc.steps.reassigned[3].speaker = proc.steps.merged[3].speaker

\* ------------------------------------------------------------------------
\* C19: A transcript segment that overlaps at least one region gets the
\* speaker of an overlapping region whose final score
\*   (overlap/segment duration * overlap_weight
\*    + min(1, region duration / 5 s) * duration_weight
\*    + consistency * temporal_consistency_weight) * region confidence
\* no other overlapping region exceeds, and its speaker_confidence is that
\* region's overlap share, not the score; regions that do not overlap the
\* segment are not compared.
\* ------------------------------------------------------------------------
\* the speaker given to the segment before k, none before the first
PreviousSpeaker(k) == IF k = 1 THEN "None" ELSE Enhanced[k - 1].speaker

Candidates(k) ==
    { r \in 1..Len(speaker_regions) : Overlaps(Transcript[k], speaker_regions[r]) }

OverlapShare(k, r) ==
    Rat(Min2(Transcript[k].end, speaker_regions[r].end)
          - Max2(Transcript[k].start, speaker_regions[r].start),
        Transcript[k].end - Transcript[k].start)

DurationShare(r) ==
    IF speaker_regions[r].duration >= 50 THEN RInt(1)
    ELSE Rat(speaker_regions[r].duration, 50)

Consistency(k, r) ==
    IF speaker_regions[r].speaker = PreviousSpeaker(k) THEN Rat(8, 10) ELSE Rat(2, 10)

Score(k, r) ==
    RMul(RAdd(RAdd(RMul(OverlapShare(k, r), mapping.overlap_weight),
                   RMul(DurationShare(r), mapping.duration_weight)),
              RMul(Consistency(k, r), mapping.temporal_consistency_weight)),
         speaker_regions[r].confidence)

SameRat(a, b) == RLe(a, b) /\ RLe(b, a)

C19_HighestScoreWins ==
    Mapped =>
        \A k \in 1..Len(Enhanced) :
            Candidates(k) # {} =>
                \E r \in Candidates(k) :
                    /\ \A q \in Candidates(k) : RLe(Score(k, q), Score(k, r))
                    /\ Enhanced[k].speaker = speaker_regions[r].speaker
                    /\ SameRat(Enhanced[k].speaker_confidence, OverlapShare(k, r))

\* the segment lies mostly on the short region and is given to the long
\* one, with a confidence that is not the winning score
C19_Witness ==
    /\ Mapped
    /\ \E k \in 1..Len(Enhanced) :
         \E r, q \in Candidates(k) :
            /\ speaker_regions[r].speaker # speaker_regions[q].speaker
            /\ RLt(OverlapShare(k, r), OverlapShare(k, q))
            /\ RLt(Score(k, q), Score(k, r))
            /\ Enhanced[k].speaker = speaker_regions[r].speaker
            /\ ~SameRat(Enhanced[k].speaker_confidence, Score(k, r))

\* ------------------------------------------------------------------------
\* C20: The speaker context is carried from segment to segment: segment k
\* is assigned as one call of the per-segment choice with previous_speaker
\* equal to the speaker given to output segment k-1, whether that came from
\* the overlap scores or from the distance fallback, and with no previous
\* speaker for the first segment; so a region scores 0.8 for consistency
\* exactly when it has the speaker of segment k-1, and 0.2 otherwise.
\* ------------------------------------------------------------------------
ChoiceGiven(k, previous_speaker) ==
    assign_speaker(speaker_regions, Transcript[k], previous_speaker, mapping)

C20_ContextIsPreviousOutput ==
    Mapped =>
        \A k \in 1..Len(Enhanced) :
            /\ Enhanced[k].speaker = ChoiceGiven(k, PreviousSpeaker(k)).speaker
            /\ Enhanced[k].speaker_confidence = ChoiceGiven(k, PreviousSpeaker(k)).confidence
            /\ \A r \in 1..Len(speaker_regions) :
                  consistency_score(speaker_regions[r], PreviousSpeaker(k)) =
                     IF k > 1 /\ speaker_regions[r].speaker = Enhanced[k - 1].speaker
                     THEN Rat(8, 10) ELSE Rat(2, 10)

\* the first segment was assigned by distance, and the second goes to that
\* speaker although without the context the other region would take it
C20_Witness ==
    /\ Mapped
    /\ Len(Enhanced) = 2
    /\ Candidates(1) = {}
    /\ Enhanced[1].speaker_confidence = FallbackConfidence
    /\ Enhanced[2].speaker = Enhanced[1].speaker
    /\ ChoiceGiven(2, "None").speaker # Enhanced[2].speaker

\* ------------------------------------------------------------------------
\* C21: Every output segment of the mapper has speaker_confidence in
\* [0, 1], transcription_quality in [0, 1] and equal to
\* (1 - no_speech_prob) * (1 - |avg_logprob| / 10) cut to [0, 1], and
\* combined_confidence equal to their product, which exceeds neither factor.
\* ------------------------------------------------------------------------
InUnit(x) == RLe(RInt(0), x) /\ RLe(x, RInt(1))

\* (1 - no_speech_prob) * (1 - |avg_logprob| / 10), as a pair numerator, denominator
RawQuality(seg) ==
    LET p == seg.no_speech_prob
        l == seg.avg_logprob
        labs == IF l.n < 0 THEN -l.n ELSE l.n
    IN  Rat((p.d - p.n) * (10 * l.d - labs), p.d * 10 * l.d)

Clamped(x) == IF x.n < 0 THEN RInt(0) ELSE IF x.n > x.d THEN RInt(1) ELSE x

C21_ConfidenceRanges ==
    Mapped =>
        \A k \in 1..Len(Enhanced) :
            /\ InUnit(Enhanced[k].speaker_confidence)
            /\ InUnit(Enhanced[k].transcription_quality)
            /\ SameRat(Enhanced[k].transcription_quality, Clamped(RawQuality(Transcript[k])))
            /\ Enhanced[k].combined_confidence.n * Enhanced[k].speaker_confidence.d
                    * Enhanced[k].transcription_quality.d
                 = Enhanced[k].speaker_confidence.n * Enhanced[k].transcription_quality.n
                    * Enhanced[k].combined_confidence.d
            /\ RLe(Enhanced[k].combined_confidence, Enhanced[k].speaker_confidence)
            /\ RLe(Enhanced[k].combined_confidence, Enhanced[k].transcription_quality)

\* one segment whose raw quality is negative and cut to 0, one with a
\* partial overlap and a quality strictly inside (0, 1)
C21_Witness ==
    /\ Mapped
    /\ \E k \in 1..Len(Enhanced) :
         /\ RawQuality(Transcript[k]).n < 0
         /\ Enhanced[k].transcription_quality = RInt(0)
    /\ \E k \in 1..Len(Enhanced) :
         /\ RLt(RInt(0), Enhanced[k].speaker_confidence)
         /\ RLt(Enhanced[k].speaker_confidence, RInt(1))
         /\ RLt(RInt(0), Enhanced[k].transcription_quality)
         /\ RLt(Enhanced[k].combined_confidence, Enhanced[k].speaker_confidence)
         /\ RLt(Enhanced[k].combined_confidence, Enhanced[k].transcription_quality)

\* ------------------------------------------------------------------------
\* C22: For a combination result holding the mapper's EnhancedSegments, the
\* combination assessment reports the average speaker-mapping confidence of
\* those segments, its ambiguous_segments_ratio is the share of segments
\* with a speaker-mapping confidence below 0.5, and a ratio above
\* max_ambiguous_segments_ratio or an average below
\* min_speaker_mapping_confidence adds an issue.
\* ------------------------------------------------------------------------
\* the segments assessed are EnhancedSegment objects as the mapper builds them
MapperSegments ==
    /\ combination_result.segments # <<>>
    /\ \A i \in 1..Len(combination_result.segments) :
          /\ "speaker_confidence" \in DOMAIN combination_result.segments[i]
          /\ "confidence" \notin DOMAIN combination_result.segments[i]

LowConfidenceCount ==
    Cardinality({ i \in 1..Len(combination_result.segments) :
                    RLt(combination_result.segments[i].speaker_confidence, Rat(5, 10)) })

MappingConfidenceSum ==
    LET RECURSIVE sum(_)
        sum(i) == IF i = 0 THEN RInt(0)
                  ELSE RAdd(sum(i - 1), combination_result.segments[i].speaker_confidence)
    IN  sum(Len(combination_result.segments))

IssueOn(assessment, metric_name) ==
    \E i \in 1..Len(assessment.issues) : assessment.issues[i].metric_name = metric_name

C22_MeasuresMappingConfidence ==
    Assessed("combination") /\ MapperSegments =>
        LET assessment == quality_assessments["combination"]
            n == Len(combination_result.segments)
        IN  /\ "avg_speaker_mapping_confidence" \in DOMAIN assessment.metrics
            /\ SameRat(assessment.metrics["avg_speaker_mapping_confidence"],
                       RDiv(MappingConfidenceSum, RInt(n)))
            /\ SameRat(assessment.metrics["ambiguous_segments_ratio"],
                       Rat(LowConfidenceCount, n))
            /\ RLt(DefaultThresholds.max_ambiguous_segments_ratio, Rat(LowConfidenceCount, n))
                  => IssueOn(assessment, "ambiguous_segments_ratio")
            /\ RLt(RDiv(MappingConfidenceSum, RInt(n)),
                   DefaultThresholds.min_speaker_mapping_confidence)
                  => IssueOn(assessment, "avg_speaker_mapping_confidence")

\* ------------------------------------------------------------------------
\* C23: In each assessment a metric beyond its limit adds exactly one issue
\* for that metric and a metric within its limit adds none. The severity
\* is fixed per metric, except for the micro-segment ratio, which is MEDIUM
\* up to 0.25 and HIGH above; so a larger violation never gets a lower
\* severity than a smaller one.
\* ------------------------------------------------------------------------
Limit(name, over, limit) == [name |-> name, over |-> over, limit |-> limit]

\* the metrics compared with a limit, and on which side the violation lies
Limits(stage) ==
    CASE stage = "diarization" ->
           { Limit("micro_segment_ratio", TRUE, DefaultThresholds.max_micro_segment_ratio),
             Limit("avg_segment_duration", FALSE, DefaultThresholds.min_avg_segment_duration),
             Limit("speaker_switches_per_minute", TRUE,
                   DefaultThresholds.max_speaker_switches_per_minute) }
      [] stage = "transcription" ->
           { Limit("avg_confidence", FALSE, DefaultThresholds.min_avg_confidence),
             Limit("avg_no_speech_prob", TRUE, DefaultThresholds.max_no_speech_prob),
             Limit("avg_compression_ratio", TRUE, DefaultThresholds.max_compression_ratio) }
      [] stage = "combination" ->
           { Limit("avg_speaker_mapping_confidence", FALSE,
                   DefaultThresholds.min_speaker_mapping_confidence),
             Limit("ambiguous_segments_ratio", TRUE,
                   DefaultThresholds.max_ambiguous_segments_ratio),
             Limit("rapid_switch_ratio", TRUE, Rat(15, 100)) }

Beyond(row, value) == IF row.over THEN RLt(row.limit, value) ELSE RLt(value, row.limit)

Violated(row, metrics) == row.name \in DOMAIN metrics /\ Beyond(row, metrics[row.name])

\* the severity the assessment gives a violation of the metric at this value
SeverityAt(name, value) ==
    CASE name = "micro_segment_ratio" ->
           IF value.n * 4 > value.d THEN "HIGH" ELSE "MEDIUM"
      [] name \in {"speaker_switches_per_minute", "avg_no_speech_prob",
                   "avg_speaker_mapping_confidence"} -> "HIGH"
      [] OTHER -> "MEDIUM"

SeverityRank(severity) ==
    CASE severity = "LOW" -> 1 [] severity = "MEDIUM" -> 2
      [] severity = "HIGH" -> 3 [] severity = "CRITICAL" -> 4

IssuesFor(assessment, name) ==
    { i \in 1..Len(assessment.issues) : assessment.issues[i].metric_name = name }

\* stages assessed on a non-empty input
Measured == { stage \in AssessedStages : DOMAIN quality_assessments[stage].metrics # {} }

OneIssuePerViolation ==
    \A stage \in Measured :
        LET assessment == quality_assessments[stage]
        IN  \A row \in Limits(stage) :
                /\ Cardinality(IssuesFor(assessment, row.name)) =
                      IF Violated(row, assessment.metrics) THEN 1 ELSE 0
                /\ \A i \in IssuesFor(assessment, row.name) :
                      SameRat(assessment.issues[i].metric_value, assessment.metrics[row.name])

C23_SeverityFixedPerMetric ==
    /\ OneIssuePerViolation
    /\ \A stage \in Measured :
          LET assessment == quality_assessments[stage]
          IN  \A row \in Limits(stage) :
                  \A i \in IssuesFor(assessment, row.name) :
                      assessment.issues[i].severity =
                          SeverityAt(row.name, assessment.metrics[row.name])

\* beyond twice the limit, or under half of it
FarBeyond(row, value) ==
    IF row.over THEN RLt(RMul(RInt(2), row.limit), value)
    ELSE RLt(RMul(RInt(2), value), row.limit)

\* the statement as worded: a violation far beyond the limit is rated
\* strictly higher than one just beyond it
C23_SeverityGraduated ==
    /\ OneIssuePerViolation
    /\ \A stage \in Measured :
          LET assessment == quality_assessments[stage]
          IN  \A row \in Limits(stage) :
                  \A i \in IssuesFor(assessment, row.name) :
                      /\ SeverityRank(assessment.issues[i].severity)
                            >= SeverityRank(SeverityAt(row.name, row.limit))
                      /\ FarBeyond(row, assessment.metrics[row.name]) =>
                            SeverityRank(assessment.issues[i].severity)
                              > SeverityRank(SeverityAt(row.name, row.limit))

\* a micro-segment ratio just over its limit, rated MEDIUM
C23_Witness ==
    /\ Assessed("diarization")
    /\ "micro_segment_ratio" \in DOMAIN quality_assessments["diarization"].metrics
    /\ \E i \in IssuesFor(quality_assessments["diarization"], "micro_segment_ratio") :
         quality_assessments["diarization"].issues[i].severity = "MEDIUM"
    /\ IssuesFor(quality_assessments["diarization"], "avg_segment_duration") = {}

\* ------------------------------------------------------------------------
\* C24: When a stage raises, run returns success = False, the error text of
\* the exception, stages_completed with exactly the stages that finished
\* before, and error_stage naming the stage that raised, which is not among
\* the completed ones.
\* ------------------------------------------------------------------------
Failed == pc = "done" /\ ~pipeline_result.success /\ pipeline_result.error # "None"

C24_ErrorStageIsFailingStage ==
    Failed =>
        /\ pipeline_result.stages_completed = stages_completed
        /\ pipeline_result.error = pipeline_result.error_stage \o " raised"
        /\ \A i \in 1..Len(stages_completed) :
              stages_completed[i] # pipeline_result.error_stage

\* ------------------------------------------------------------------------
\* C25: Applying process to its own output never increases the segment
\* count, and returns the same segments whenever that output holds no
\* interior segment shorter than smoothing_window between two segments of
\* one other speaker; the re-merge of the first pass can leave such a
\* segment, and the second pass then goes on reducing.
\* ------------------------------------------------------------------------
SecondPass == pc = "done" /\ pc' = "done_again"

\* some interior segment is a short turn between two turns of one other speaker
HasBlip(segs) ==
    \E i \in 2..(Len(segs) - 1) :
        /\ segs[i].duration < config.smoothing_window
        /\ segs[i - 1].speaker = segs[i + 1].speaker
        /\ segs[i - 1].speaker # segs[i].speaker

SecondPassReduces ==
    SecondPass =>
        /\ Len(diarization_result'.segments) <= Len(diarization_result.segments)
        /\ ~HasBlip(diarization_result.segments) =>
              diarization_result'.segments = diarization_result.segments

C25_SecondPassNeverGrows == [][SecondPassReduces]_vars

\* the statement as worded: one pass is a fixed point
SecondPassIsIdentity ==
    SecondPass => diarization_result'.segments = diarization_result.segments

C25_ConvergesInOnePass == [][SecondPassIsIdentity]_vars

\* the first pass left three segments of four, the second pass one
C25_Witness ==
    /\ pc = "done_again"
    /\ Len(produced.segments) = 4
    /\ Len(proc.steps.input) = 3
    /\ HasBlip(proc.steps.input)
    /\ Len(diarization_result.segments) = 1

\* ------------------------------------------------------------------------
\* C26: For input sorted by start with end > start and duration = end - start,
\* the output of process is sorted by start, every output segment has
\* end >= start and duration = end - start, every input segment that was
\* folded into an output segment lies inside that segment's interval, and
\* speaker_durations holds, per output speaker, the sum of the durations of
\* its output segments.
\* ------------------------------------------------------------------------
SortedByStart(segs) ==
    \A i \in 1..(Len(segs) - 1) : segs[i].start <= segs[i + 1].start

WellFormedInput(segs) ==
    /\ SortedByStart(segs)
    /\ \A i \in 1..Len(segs) :
          /\ segs[i].end > segs[i].start
          /\ segs[i].duration = segs[i].end - segs[i].start

Inside(inner, outer) == outer.start <= inner.start /\ inner.end <= outer.end

DurationOf(segs, sp) ==
    SumSeq([i \in 1..Len(segs) |-> IF segs[i].speaker = sp THEN segs[i].duration ELSE 0])

\* the order, duration and speaker_durations parts of the statement
C26_OutputWellFormed ==
    (Processed /\ WellFormedInput(produced.segments)) =>
        LET out == diarization_result.segments
        IN  /\ SortedByStart(out)
            /\ \A i \in 1..Len(out) :
                  /\ out[i].end >= out[i].start
                  /\ out[i].duration = out[i].end - out[i].start
            /\ DOMAIN diarization_result.speaker_durations =
                  { out[i].speaker : i \in 1..Len(out) }
            /\ \A sp \in DOMAIN diarization_result.speaker_durations :
                  diarization_result.speaker_durations[sp] = DurationOf(out, sp)

\* every segment that passed the filter was folded into some output segment,
\* so it must lie inside at least one output interval
C26_OutputInvariants ==
    /\ C26_OutputWellFormed
    /\ (Processed /\ WellFormedInput(produced.segments)) =>
          \A i \in 1..Len(proc.steps.filtered) :
              \E k \in 1..Len(diarization_result.segments) :
                  Inside(proc.steps.filtered[i], diarization_result.segments[k])

\* ------------------------------------------------------------------------
\* C29: When at least three segments remain after the filter and merge
\* steps, no two consecutive output segments of process have the same
\* speaker, whatever their gap and whatever merge_gap_threshold is; with
\* fewer than three, the output is the merge output, same-speaker pairs
\* included.
\* ------------------------------------------------------------------------
SameSpeakerPairs(segs) ==
    { i \in 1..(Len(segs) - 1) : segs[i].speaker = segs[i + 1].speaker }

\* same-speaker neighbours further apart than merge_gap_threshold
DistantPairs(segs) ==
    { i \in SameSpeakerPairs(segs) :
        segs[i + 1].start - segs[i].end > config.merge_gap_threshold }

C29_NoSameSpeakerNeighbours ==
    Processed =>
        /\ Len(proc.steps.merged) >= 3 =>
              SameSpeakerPairs(diarization_result.segments) = {}
        /\ Len(proc.steps.merged) < 3 =>
              diarization_result.segments = proc.steps.merged

\* the merge step kept a same-speaker pair apart and the smoothing joined it
C29_Witness ==
    /\ Processed
    /\ Len(proc.steps.merged) >= 3
    /\ DistantPairs(proc.steps.merged) # {}
    /\ Len(diarization_result.segments) < Len(proc.steps.merged)

\* two segments after merging: the same-speaker pair stays
C29_PairLeftUnmerged ==
    /\ Processed
    /\ Len(proc.steps.merged) = 2
    /\ SameSpeakerPairs(diarization_result.segments) # {}

\* ------------------------------------------------------------------------
\* C28: process leaves every dict of the input list as it was (speaker,
\* start, end, duration), merging and smoothing working on copies, and on
\* the host result it replaces segments, speaker_durations and
\* metadata['segment_processing'] and nothing else.
\* ------------------------------------------------------------------------
ReplacedFields == {"segments", "speaker_durations", "metadata"}

ByRefAgrees ==
    Processed =>
        LET final == process_by_ref(produced.segments, config)
        IN  /\ diarization_result.segments =
                  [i \in 1..Len(final.list) |-> final.heap[final.list[i]]]
            /\ \A i \in 1..Len(final.list) : final.list[i] > Len(produced.segments)

\* ------------------------------------------------------------------------
\* C27: for an assessment made by one of the three assessment functions,
\* should_reprocess says to reprocess exactly when the assessment did not
\* pass, and the assessment of an empty input gets use_better_model.
\* ------------------------------------------------------------------------
C27_ReprocessIffNotPassed ==
    \A stage \in Decided :
        LET a == quality_assessments[stage]
            decision == reprocess_decisions[stage]
        IN  /\ a.passed => ~decision.should_reprocess
            /\ ~a.passed => decision.should_reprocess
            /\ StageSegments(stage) = <<>> => decision.strategy = "use_better_model"

\* a non-empty input that failed its assessment and is sent back
C27_Witness ==
    \E stage \in Decided :
        /\ StageSegments(stage) # <<>>
        /\ ~quality_assessments[stage].passed
        /\ reprocess_decisions[stage].should_reprocess

\* an assessment that passed below 0.85 and is kept
C27_AdequateKept ==
    \E stage \in Decided :
        /\ quality_assessments[stage].passed
        /\ ~AtLeast(quality_assessments[stage].overall_score, 85)
        /\ ~reprocess_decisions[stage].should_reprocess

====
